---- MODULE Spec2Model ----
(***************************************************************************)
(* A model of the transcript explorer frontend: the search page            *)
(* (SearchPage, whose text is in src/frontend/next.config.ts from line 21  *)
(* on), the transcript page (TranscriptContent), the ask page (AskPage)    *)
(* and the API client (lib/api.ts).                                        *)
(*                                                                         *)
(* Strings are sequences of one-character strings, a nullable value is a   *)
(* sequence of length 0 (null) or 1, and array indices are kept 0-based    *)
(* where the program stores them (SearchResult.index).                     *)
(***************************************************************************)
EXTENDS Integers, Sequences, FiniteSets, TLC

VARIABLES
    data,           \* TranscriptProvider.data: Null or Some(transcript)
    loading,        \* TranscriptProvider.loading
    error,          \* TranscriptProvider.error: Null or Some(message)
    page,           \* the mounted route: "search" or "transcript"
    query,          \* the mounted page's query state
    filterSpeaker,  \* the mounted page's filterSpeaker state: Null or Some(id)
    filterEntity,   \* the mounted page's filterEntity state ("" is <<>>)
    fuse,           \* the mounted page's fuse memo: Null or Some(index records)
    results,        \* SearchPage.results (the memo's value at the last render)
    filtered,       \* TranscriptContent.filtered (the memo's value at the last render)
    highlighted,    \* highlightText: its argument text, the text of a listed paragraph
    regex,          \* highlightText: Null, or Some(the atoms of the compiled regex)
    parts,          \* highlightText: text.split(regex)
    lastIndex,      \* highlightText: regex.lastIndex
    rendered,       \* highlightText: the parts mapped so far, [mark, part]
    hpc,            \* highlightText: "call", "map" or "done"
    input,          \* AskPage.input
    messages,       \* AskPage.messages
    isLoading,      \* AskPage.isLoading
    pending,        \* the fetch of askQuestion in flight: Null or Some(question)
    requests,       \* the questions POSTed to /api/ask, in order
    sent,           \* the fetch calls of askQuestion as issued, in order
    dropped,        \* submit events that returned at handleSubmit's guard while loading
    responses,      \* what each completed fetch delivered, in order
    retrieval,      \* retrieve: Null, or Some(the arguments of the last call)
    evidence,       \* retrieve: the paragraphs the last call returned
    fetched,        \* searchTranscript: the query strings of the fetches issued, in order
    uniqueEntities, \* the mounted page's uniqueEntities (TranscriptContent's memo, OverviewPage's const)
    uniqueTopics,   \* OverviewPage.uniqueTopics
    isPlaying,      \* useAudio().isPlaying as TranscriptContent last rendered it
    currentTime,    \* useAudio().currentTime as TranscriptContent last rendered it
    autoScroll,     \* TranscriptContent.autoScroll
    scrolled,       \* the paragraph the last render's effect scrolled to: Null or Some(idx)
    loaded,         \* the transcript as fetchTranscript delivered it: Null or Some(transcript)
    arrived         \* the response the network has delivered to the fetch in flight and
                    \* askQuestion has not resumed on yet: Null or Some(response)

searchVars == <<data, loading, error, page, query, filterSpeaker, filterEntity, fuse,
                results, filtered>>

highlightVars == <<highlighted, regex, parts, lastIndex, rendered, hpc>>

askVars == <<input, messages, isLoading, pending, requests, sent, dropped, responses>>

retrieveVars == <<retrieval, evidence>>

apiVars == <<fetched>>

playerVars == <<uniqueEntities, uniqueTopics, isPlaying, currentTime, autoScroll, scrolled>>

sideVars == <<retrieveVars, apiVars, playerVars, loaded, arrived>>

vars == <<searchVars, highlightVars, askVars, sideVars>>

-----------------------------------------------------------------------------
(* Values                                                                   *)

Null == <<>>
Some(x) == <<x>>

Min(a, b) == IF a <= b THEN a ELSE b
Max(a, b) == IF a >= b THEN a ELSE b

Range(s) == {s[i] : i \in 1..Len(s)}

\* String.prototype.toLowerCase on one character.
LowerChar(c) ==
    CASE c = "A" -> "a" [] c = "B" -> "b" [] c = "C" -> "c" [] c = "D" -> "d"
      [] c = "E" -> "e" [] c = "H" -> "h" [] c = "U" -> "u" [] c = "X" -> "x"
      [] OTHER -> c

ToLowerCase(s) == [i \in 1..Len(s) |-> LowerChar(s[i])]

IsSpace(c) == c = " "

RECURSIVE TrimStart(_)
TrimStart(s) ==
    IF s # <<>> /\ IsSpace(s[1]) THEN TrimStart(Tail(s)) ELSE s

RECURSIVE TrimEnd(_)
TrimEnd(s) ==
    IF s # <<>> /\ IsSpace(s[Len(s)]) THEN TrimEnd(SubSeq(s, 1, Len(s) - 1)) ELSE s

\* String.prototype.trim
Trim(s) == TrimEnd(TrimStart(s))

\* Whether pat occurs in s at 0-based position pos.
MatchesAt(s, pat, pos) ==
    /\ pos + Len(pat) <= Len(s)
    /\ \A k \in 1..Len(pat) : s[pos + k] = pat[k]

\* String.prototype.indexOf(pat, from): the first 0-based position >= from, or -1.
IndexOf(s, pat, from) ==
    LET hits == {p \in from..(Len(s) - Len(pat)) : MatchesAt(s, pat, p)}
    IN  IF hits = {} THEN -1 ELSE CHOOSE p \in hits : \A r \in hits : p <= r

\* String.prototype.includes
Includes(s, pat) == IndexOf(s, pat, 0) >= 0

\* Array.prototype.slice(0, n)
Slice0(s, n) == SubSeq(s, 1, Min(Len(s), n))

-----------------------------------------------------------------------------
(* fuse.js as the pages configure it: new Fuse(list, {keys: ["text"],      *)
(* threshold: 0.3, includeScore: true, ignoreLocation: true,               *)
(* minMatchCharLength: 2}). The library's Bitap search is written out for  *)
(* these options: with ignoreLocation a match's score is errors /          *)
(* pattern length wherever it lies, and the whole text is scanned.         *)

\* threshold: 0.2 and threshold: 0.5 in the options.
ThresholdFifth == [num |-> 1, den |-> 5]

ThresholdHalf == [num |-> 1, den |-> 2]

\* threshold: 0.3, as a fraction.
Threshold == [num |-> 3, den |-> 10]

MinMatchCharLength == 2

RatLE(a, b) == a.num * b.den <= b.num * a.den
RatLT(a, b) == a.num * b.den < b.num * a.den
RatMin(a, b) == IF RatLE(a, b) THEN a ELSE b
RatMax(a, b) == IF RatLE(a, b) THEN b ELSE a

\* computeScore(pattern, {errors, ignoreLocation: true}) = errors / pattern.length
BitapScore(errors, patternLen) == [num |-> errors, den |-> patternLen]

\* createPatternAlphabet: the bits of character c, bit (len - i - 1) for the
\* pattern's 0-based position i. A bit mask is the set of its set bits.
PatternAlphabet(pattern, c) ==
    {Len(pattern) - p : p \in {q \in 1..Len(pattern) : pattern[q] = c}}

\* (x << 1) | 1, kept to the pattern's bits: a bit above the mask bit never
\* flows back down, so it cannot change a test against the mask.
ShiftOr1(x, patternLen) == {k + 1 : k \in {b \in x : b + 1 < patternLen}} \cup {0}

\* One location of the scan at error level i: bitArr[j] from bitArr[j + 1]
\* (next) and the level below. text.charAt past the end is "", which has no bits.
\*   bitArr[j] = ((bitArr[j + 1] << 1) | 1) & charMatch
\*   if (i) bitArr[j] |= ((lastBitArr[j + 1] | lastBitArr[j]) << 1) | 1 | lastBitArr[j + 1]
BitArrCell(text, pattern, i, lastBitArr, j, next) ==
    LET charMatch == IF j <= Len(text) THEN PatternAlphabet(pattern, text[j]) ELSE {}
        exact == ShiftOr1(next, Len(pattern)) \cap charMatch
        fuzzy == IF i > 0
                 THEN ShiftOr1(lastBitArr[j + 1] \cup lastBitArr[j], Len(pattern))
                          \cup lastBitArr[j + 1]
                 ELSE {}
    IN  exact \cup fuzzy

\* The scan for (j = finish; j >= start; j -= 1) over the locations lo..hi,
\* given bitArr[hi + 1]: the upper half first, then the lower half from it.
RECURSIVE BitArrRange(_, _, _, _, _, _, _)
BitArrBelow(text, pattern, i, lastBitArr, lo, hi, upper) ==
    IF Len(upper) = 0 THEN upper
    ELSE BitArrRange(text, pattern, i, lastBitArr, lo, hi, upper[1]) \o upper

BitArrRange(text, pattern, i, lastBitArr, lo, hi, next) ==
    IF lo = hi THEN <<BitArrCell(text, pattern, i, lastBitArr, lo, next)>>
    ELSE BitArrBelow(text, pattern, i, lastBitArr, lo, (lo + hi) \div 2,
             BitArrRange(text, pattern, i, lastBitArr, (lo + hi) \div 2 + 1, hi, next))

\* bitArr of error level i: indices 1 .. finish + 1, finish = text + pattern
\* length, bitArr[finish + 1] = (1 << i) - 1.
BitArr(text, pattern, i, lastBitArr) ==
    BitArrRange(text, pattern, i, lastBitArr, 1, Len(text) + Len(pattern), 0..(i - 1))
        \o <<0..(i - 1)>>

\* The locations j at which bitArr[j] & mask is set: a match of the whole
\* pattern starts at text position j - 1.
MaskHits(bitArr, patternLen) ==
    {j \in 1..(Len(bitArr) - 1) : (patternLen - 1) \in bitArr[j]}

\* What one level's scan leaves in [threshold, bestLocation, finalScore]: every
\* match of the level scores the same, finalScore takes it, and when it is
\* within the threshold the scan ends with the leftmost match as bestLocation.
AfterScan(st, hits, score) ==
    IF hits = {} THEN st
    ELSE IF RatLE(score, st.threshold)
    THEN [threshold    |-> score,
          bestLocation |-> (CHOOSE j \in hits : \A k \in hits : j <= k) - 1,
          finalScore   |-> score]
    ELSE [st EXCEPT !.finalScore = score]

\* The error levels of search(): level i scans with i errors allowed, then the
\* loop stops when one more error cannot beat the current threshold:
\*   if (computeScore(pattern, {errors: i + 1}) > currentThreshold) break
RECURSIVE BitapLevels(_, _, _, _, _)
NextLevel(text, pattern, i, bitArr, st) ==
    IF i + 1 >= Len(pattern) \/ RatLT(st.threshold, BitapScore(i + 1, Len(pattern)))
    THEN st
    ELSE BitapLevels(text, pattern, i + 1, bitArr, st)

ScanLevel(text, pattern, i, bitArr, st) ==
    NextLevel(text, pattern, i, bitArr,
              AfterScan(st, MaskHits(bitArr, Len(pattern)), BitapScore(i, Len(pattern))))

BitapLevels(text, pattern, i, lastBitArr, st) ==
    ScanLevel(text, pattern, i, BitArr(text, pattern, i, lastBitArr), st)

\* convertMaskToIndices(matchMask, minMatchCharLength) finds a run: after the
\* scan matchMask[loc] says whether text[loc] is a character of the pattern.
HasMatchRun(text, pattern) ==
    \E s \in 1..Len(text) :
        /\ s + MinMatchCharLength - 1 <= Len(text)
        /\ \A k \in s..(s + MinMatchCharLength - 1) : PatternAlphabet(pattern, text[k]) # {}

\* The result of search(): isMatch needs a best location and a run of
\* matched characters; the score is Math.max(0.001, finalScore).
BitapResult(text, pattern, st) ==
    [isMatch |-> st.bestLocation >= 0 /\ HasMatchRun(text, pattern),
     score   |-> RatMax([num |-> 1, den |-> 1000], st.finalScore)]

\* bitap search(text, pattern, alphabet, options). An exact occurrence
\* (text.indexOf) lowers the threshold to its score, 0, before the scan.
BitapSearch(text, pattern) ==
    BitapResult(text, pattern,
        BitapLevels(text, pattern, 0, <<>>,
            [threshold    |-> IF IndexOf(text, pattern, 0) >= 0
                              THEN RatMin(BitapScore(0, Len(pattern)), Threshold)
                              ELSE Threshold,
             bestLocation |-> -1,
             finalScore   |-> [num |-> 1, den |-> 1]]))

\* searchIn's result for one chunk: the chunk's score when it matches, else 1.
ChunkResult(r) ==
    [isMatch |-> r.isMatch,
     score   |-> IF r.isMatch THEN r.score ELSE [num |-> 1, den |-> 1]]

\* BitapSearch.searchIn on lower-cased text t and pattern p: a text equal to
\* the pattern scores 0, anything else is searched (a pattern here is one
\* chunk, at most 32 characters).
SearchLowered(t, p) ==
    IF p = t THEN [isMatch |-> TRUE, score |-> [num |-> 0, den |-> 1]]
    ELSE IF p = <<>> THEN [isMatch |-> FALSE, score |-> [num |-> 1, den |-> 1]]
    ELSE ChunkResult(BitapSearch(t, p))

\* isCaseSensitive is false: text and pattern are lower-cased first.
SearchIn(text, pattern) == SearchLowered(ToLowerCase(text), ToLowerCase(pattern))

\* value.match(/[^ ]+/g).length: the number of space-separated tokens.
NumTokens(text) ==
    Cardinality({i \in 1..Len(text) : text[i] # " " /\ (i = 1 \/ text[i - 1] = " ")})

\* The field-length norm 1 / sqrt(numTokens), rounded to three decimals and
\* held in thousandths: Math.round(norm * 1000).
Norm1000(numTokens) ==
    CHOOSE k \in 0..1000 :
        /\ (2 * k + 1) * (2 * k + 1) * numTokens > 4000000
        /\ k > 0 => (2 * k - 1) * (2 * k - 1) * numTokens <= 4000000

\* isBlank(value): nothing but whitespace.
IsBlank(text) == Trim(text) = <<>>

\* FuseIndex over list.map((p, i) => ({...p, index: i})) with keys ["text"]:
\* one record per paragraph, its 0-based position i, its text v and norm n; a
\* blank text is not indexed.
CreateIndex(paragraphs) ==
    [k \in 1..Len(paragraphs) |->
        [i |-> k - 1,
         v |-> IF IsBlank(paragraphs[k].text) THEN Null ELSE Some(paragraphs[k].text),
         n |-> IF IsBlank(paragraphs[k].text) THEN 0
               ELSE Norm1000(NumTokens(paragraphs[k].text))]]

\* -1000 * ln(base), rounded, for the scores of a pattern of at most 11
\* characters: errors / length in lowest terms, 0.001 for an exact occurrence
\* and Number.EPSILON (2^-52) for a score of 0.
MilliLnTable ==
    << <<1, 1, 0>>, <<1, 2, 693>>, <<1, 3, 1099>>, <<2, 3, 405>>, <<1, 4, 1386>>,
       <<3, 4, 288>>, <<1, 5, 1609>>, <<2, 5, 916>>, <<3, 5, 511>>, <<4, 5, 223>>,
       <<1, 6, 1792>>, <<5, 6, 182>>, <<1, 7, 1946>>, <<2, 7, 1253>>, <<3, 7, 847>>,
       <<4, 7, 560>>, <<5, 7, 336>>, <<6, 7, 154>>, <<1, 8, 2079>>, <<3, 8, 981>>,
       <<5, 8, 470>>, <<7, 8, 134>>, <<1, 9, 2197>>, <<2, 9, 1504>>, <<4, 9, 811>>,
       <<5, 9, 588>>, <<7, 9, 251>>, <<8, 9, 118>>, <<1, 10, 2303>>, <<3, 10, 1204>>,
       <<7, 10, 357>>, <<9, 10, 105>>, <<1, 11, 2398>>, <<2, 11, 1705>>, <<3, 11, 1299>>,
       <<4, 11, 1012>>, <<5, 11, 788>>, <<6, 11, 606>>, <<7, 11, 452>>, <<8, 11, 318>>,
       <<9, 11, 201>>, <<10, 11, 95>>, <<1, 1000, 6908>> >>

MilliLn(base) ==
    IF base.num = 0 THEN 36044
    ELSE LET e == CHOOSE x \in Range(MilliLnTable) : x[1] * base.den = base.num * x[2]
         IN  e[3]

\* computeScore: result.score = Math.pow(score || Number.EPSILON, norm) for the
\* one key of weight 1. The model keeps -ln(result.score) in fixed point, so a
\* smaller score is a larger NegLogScore.
NegLogScore(score, norm1000) == MilliLn(score) * norm1000

\* The default sortFn on the model's scale: < 0 (TRUE) when a sorts before b,
\*   a.score === b.score ? (a.idx < b.idx ? -1 : 1) : (a.score < b.score ? -1 : 1)
SortFn(a, b) ==
    IF a.score = b.score THEN a.idx < b.idx ELSE a.score > b.score

\* results.sort(sortFn): sortFn is a strict total order, so every sorting
\* algorithm gives the same array; a merge sort is the one written here.
RECURSIVE Merge(_, _)
MergeAt(a, b, mid, nb) ==
    Merge(SubSeq(a, 1, mid - 1), SubSeq(b, 1, nb))
        \o <<a[mid]>>
        \o Merge(SubSeq(a, mid + 1, Len(a)), SubSeq(b, nb + 1, Len(b)))

Merge(a, b) ==
    IF a = <<>> THEN b
    ELSE IF b = <<>> THEN a
    ELSE MergeAt(a, b, (Len(a) + 1) \div 2,
                 Cardinality({j \in 1..Len(b) : SortFn(b[j], a[(Len(a) + 1) \div 2])}))

RECURSIVE SortResults(_)
SortResults(rs) ==
    IF Len(rs) <= 1 THEN rs
    ELSE Merge(SortResults(SubSeq(rs, 1, Len(rs) \div 2)),
               SortResults(SubSeq(rs, Len(rs) \div 2 + 1, Len(rs))))

\* One record's entry in the result list: none when its text does not match.
MatchEntry(record, r) ==
    IF r.isMatch
    THEN <<[idx |-> record.i, score |-> NegLogScore(r.score, record.n)]>>
    ELSE <<>>

\* _searchObjectList: every indexed record lo..hi whose text matches, with its
\* score, in list order.
RECURSIVE FindMatches(_, _, _, _)
FindMatches(records, pattern, lo, hi) ==
    IF lo > hi THEN <<>>
    ELSE IF lo < hi
    THEN FindMatches(records, pattern, lo, (lo + hi) \div 2)
             \o FindMatches(records, pattern, (lo + hi) \div 2 + 1, hi)
    ELSE IF records[lo].v = Null THEN <<>>
    ELSE MatchEntry(records[lo], SearchIn(records[lo].v[1], pattern))

\* format(): { item, refIndex, score }, refIndex the record's list position.
FormatResults(sorted) ==
    [k \in 1..Len(sorted) |-> [refIndex |-> sorted[k].idx, score |-> sorted[k].score]]

\* fuse.search(query): the matching records, sorted by sortFn.
FuseSearch(records, pattern) ==
    FormatResults(SortResults(FindMatches(records, pattern, 1, Len(records))))

-----------------------------------------------------------------------------
(* The search page and the transcript page                                  *)

\* matches.slice(0, 100)
MaxResults == 100

\* The page's fuse memo: null without data, else the index of the paragraphs.
FuseMemo(d) == IF d = Null THEN Null ELSE Some(CreateIndex(d[1].paragraphs))

\* The listing with positions counted from one.
AllParagraphsFromOne(paragraphs) ==
    [k \in 1..Len(paragraphs) |-> [paragraph |-> paragraphs[k], index |-> k]]

\* data.paragraphs.map((p, i) => ({ paragraph: p, index: i }))
AllParagraphs(paragraphs) ==
    [k \in 1..Len(paragraphs) |-> [paragraph |-> paragraphs[k], index |-> k - 1]]

\* fuse.search(query).map((r) => ({ paragraph: r.item, index: r.item.index }))
SearchMatches(paragraphs, found) ==
    [k \in 1..Len(found) |->
        [paragraph |-> paragraphs[found[k].refIndex + 1], index |-> found[k].refIndex]]

\* if (query && fuse): the query tested without trim().
TextMatchesUntrimmed(d, fz, q) ==
    IF q # <<>> /\ fz # Null
    THEN SearchMatches(d[1].paragraphs, FuseSearch(fz[1], q))
    ELSE AllParagraphs(d[1].paragraphs)

\* if (query.trim() && fuse) { fuse.search ... } else { all paragraphs }
TextMatches(d, fz, q) ==
    IF Trim(q) # <<>> /\ fz # Null
    THEN SearchMatches(d[1].paragraphs, FuseSearch(fz[1], q))
    ELSE AllParagraphs(d[1].paragraphs)

\* The speaker test letting unassigned paragraphs through.
SpeakerTestOrUnassigned(m, fs) == m.paragraph.speaker = fs \/ m.paragraph.speaker = Null

\* matches.filter((m) => m.paragraph.speaker === filterSpeaker)
SpeakerTest(m, fs) == m.paragraph.speaker = fs

FilterBySpeaker(matches, fs) ==
    IF fs # Null THEN SelectSeq(matches, LAMBDA m : SpeakerTest(m, fs)) ELSE matches

\* The entity test without toLowerCase().
EntityTestCaseSensitive(m, fe) == Includes(m.paragraph.text, fe)

\* m.paragraph.text.toLowerCase().includes(filterEntity.toLowerCase())
EntityTest(m, fe) == Includes(ToLowerCase(m.paragraph.text), ToLowerCase(fe))

FilterByEntity(matches, fe) ==
    IF fe # <<>> THEN SelectSeq(matches, LAMBDA m : EntityTest(m, fe)) ELSE matches

\* The return without slice().
CapResultsWhole(matches) == matches

\* return matches.slice(0, 100)
CapResults(matches) == Slice0(matches, MaxResults)

\* The memo with the speaker filter run over data.paragraphs, not over matches.
SearchPageResultsFilterAll(d, fz, q, fs, fe) ==
    IF d = Null THEN <<>>
    ELSE CapResults(FilterByEntity(
             FilterBySpeaker(IF fs # Null THEN AllParagraphs(d[1].paragraphs)
                                          ELSE TextMatches(d, fz, q), fs), fe))

\* SearchPage.results
SearchPageResults(d, fz, q, fs, fe) ==
    IF d = Null THEN <<>>
    ELSE CapResults(FilterByEntity(FilterBySpeaker(TextMatches(d, fz, q), fs), fe))

\* TranscriptContent.filtered: its own copy of the pipeline, on entries
\* named { para, idx }, returned whole.
\* fuse.search(query).map((r) => ({ para: r.item, idx: r.item._idx }))
TranscriptSearchMatches(paragraphs, found) ==
    [k \in 1..Len(found) |->
        [para |-> paragraphs[found[k].refIndex + 1], idx |-> found[k].refIndex]]

TranscriptMatches(d, fz, q) ==
    IF Trim(q) # <<>> /\ fz # Null
    THEN TranscriptSearchMatches(d[1].paragraphs, FuseSearch(fz[1], q))
    ELSE [k \in 1..Len(d[1].paragraphs) |-> [para |-> d[1].paragraphs[k], idx |-> k - 1]]

\* results.filter((r) => r.para.speaker === filterSpeaker)
TranscriptBySpeaker(rs, fs) ==
    IF fs # Null THEN SelectSeq(rs, LAMBDA r : r.para.speaker = fs) ELSE rs

\* The transcript page's entity filter without toLowerCase().
TranscriptByEntityCaseSensitive(rs, fe) ==
    IF fe # <<>> THEN SelectSeq(rs, LAMBDA r : Includes(r.para.text, fe)) ELSE rs

\* r.para.text.toLowerCase().includes(filterEntity.toLowerCase())
TranscriptByEntity(rs, fe) ==
    IF fe # <<>>
    THEN SelectSeq(rs, LAMBDA r : Includes(ToLowerCase(r.para.text), ToLowerCase(fe)))
    ELSE rs

TranscriptFiltered(d, fz, q, fs, fe) ==
    IF d = Null THEN <<>>
    ELSE TranscriptByEntity(TranscriptBySpeaker(TranscriptMatches(d, fz, q), fs), fe)

\* The option values of the entity select: the values of uniqueEntities.
EntityOptions(d) ==
    IF d = Null THEN {} ELSE {d[1].entities[k].value : k \in 1..Len(d[1].entities)}

\* The option values of the speaker select: data.speakers.
SpeakerOptions(d) ==
    IF d = Null THEN {} ELSE {d[1].speakers[k] : k \in 1..Len(d[1].speakers)}

\* The guards with if (loading) left out: content as soon as data is set.
ContentShownWhileLoading == error = Null /\ data # Null

\* A page shows its content (inputs, selects, list) only past both guards:
\* if (loading) ...; if (error || !data) ...
ContentShown == ~loading /\ error = Null /\ data # Null

-----------------------------------------------------------------------------
(* The transcripts, queries and filters the model draws from                *)

\* The longest transcript modelled: one paragraph past the cap.
MaxParagraphs == 101

Ehud == <<"E", "h", "u", "d">>
Ehdu == <<"E", "h", "d", "u">>
Ab == <<"a", "b">>
Sp == <<" ">>

Para(speaker, start, end, text) ==
    [speaker |-> speaker, start |-> start, end |-> end,
     num_words |-> NumTokens(text), text |-> text]

Entity(value, startWord, endWord) ==
    [label |-> "PER", value |-> value, confidence |-> 9,
     start_word |-> startWord, end_word |-> endWord]

EmptyTranscript == [paragraphs |-> <<>>, entities |-> <<>>, speakers |-> <<>>]

\* Four paragraphs: "Ehud" | "a ehud b" | "ab" (no speaker) | "Ehdu x".
SmallTranscript ==
    [paragraphs |-> << Para(Some(0), 0, 2, Ehud),
                       Para(Some(1), 2, 4, <<"a">> \o Sp \o ToLowerCase(Ehud) \o Sp \o <<"b">>),
                       Para(Null, 4, 5, Ab),
                       Para(Some(1), 5, 7, Ehdu \o Sp \o <<"x">>) >>,
     entities   |-> << Entity(Ehud, 0, 1), Entity(Ehud, 2, 3), Entity(Ab, 4, 5) >>,
     speakers   |-> <<0, 1>>]

\* MaxParagraphs paragraphs, contiguous in time, cycling through
\* "Ehud" (speaker 0) | "ab Ehud" (speaker 1) | "Ehdu ab" (no speaker).
CycleText(k) ==
    CASE k % 3 = 0 -> Ehud
      [] k % 3 = 1 -> Ab \o Sp \o Ehud
      [] OTHER     -> Ehdu \o Sp \o Ab

CycleSpeaker(k) ==
    CASE k % 3 = 0 -> Some(0)
      [] k % 3 = 1 -> Some(1)
      [] OTHER     -> Null

LongTranscript ==
    [paragraphs |-> [k \in 1..MaxParagraphs |->
                        Para(CycleSpeaker(k - 1), k - 1, k, CycleText(k - 1))],
     entities   |-> << Entity(Ehud, 0, 1), Entity(Ab, 1, 2), Entity(Ehud, 2, 3) >>,
     speakers   |-> <<0, 1>>]

Transcripts == {EmptyTranscript, SmallTranscript, LongTranscript}

Queries == {<<>>, Sp, Ehdu, Ab}

Pages == {"search", "transcript"}

-----------------------------------------------------------------------------
(* Spec: the transcript loader and the two pages                            *)

\* No highlightText call is under way.
HighlightIdle ==
    /\ highlighted = <<>>
    /\ regex = Null
    /\ parts = <<>>
    /\ lastIndex = 0
    /\ rendered = <<>>
    /\ hpc = "done"

\* AskPage's useState defaults, and nothing sent.
AskMounted ==
    /\ input = <<>>
    /\ messages = <<>>
    /\ isLoading = FALSE
    /\ pending = Null
    /\ requests = <<>>
    /\ sent = <<>>
    /\ dropped = 0
    /\ responses = <<>>

\* No retrieve call made, no search request issued, and TranscriptContent's
\* useState defaults with the audio stopped.
RetrieveIdle == retrieval = Null /\ evidence = <<>>

ApiIdle == fetched = <<>>

PlayerIdle ==
    /\ uniqueEntities = <<>>
    /\ uniqueTopics = <<>>
    /\ isPlaying = FALSE
    /\ currentTime = 0
    /\ autoScroll = TRUE
    /\ scrolled = Null

SideIdle == RetrieveIdle /\ ApiIdle /\ PlayerIdle /\ loaded = Null /\ arrived = Null

\* What the mounted page's memos hold after a render with these values.
\* TranscriptContent is mounted only once TranscriptPage is past its guards.
ResultsAfter(pg, d, fz, q, fs, fe) ==
    IF pg = "search" THEN SearchPageResults(d, fz, q, fs, fe) ELSE <<>>

FilteredAfter(pg, shown, d, fz, q, fs, fe) ==
    IF pg = "transcript" /\ shown THEN TranscriptFiltered(d, fz, q, fs, fe) ELSE <<>>

Init ==
    /\ data = Null
    /\ loading = TRUE
    /\ error = Null
    /\ page \in Pages
    /\ query = <<>>
    /\ filterSpeaker = Null
    /\ filterEntity = <<>>
    /\ fuse = Null
    /\ results = <<>>
    /\ filtered = <<>>
    /\ HighlightIdle
    /\ AskMounted
    /\ SideIdle

\* fetchTranscript().then((d) => setData(d))
FetchResolve(d) ==
    /\ loading /\ data = Null /\ error = Null
    /\ data' = Some(d)
    /\ fuse' = IF page = "search" THEN FuseMemo(Some(d)) ELSE fuse
    /\ results' = ResultsAfter(page, Some(d), FuseMemo(Some(d)), query, filterSpeaker, filterEntity)
    /\ UNCHANGED <<loading, error, page, query, filterSpeaker, filterEntity, filtered,
                 highlightVars, askVars, sideVars>>

\* .catch((e) => setError(e.message))
FetchReject ==
    /\ loading /\ data = Null /\ error = Null
    /\ error' = Some("Failed to fetch transcript")
    /\ UNCHANGED <<data, loading, page, query, filterSpeaker, filterEntity, fuse, results, filtered,
                 highlightVars, askVars, sideVars>>

\* .finally(() => setLoading(false))
FetchFinally ==
    /\ loading /\ (data # Null \/ error # Null)
    /\ loading' = FALSE
    /\ fuse' = IF page = "transcript" /\ error = Null THEN FuseMemo(data) ELSE fuse
    /\ filtered' = FilteredAfter(page, error = Null, data, FuseMemo(data),
                                 query, filterSpeaker, filterEntity)
    /\ UNCHANGED <<data, error, page, query, filterSpeaker, filterEntity, results,
                 highlightVars, askVars, sideVars>>

\* Following a link: the page left is unmounted and the page entered starts
\* from its useState defaults.
Navigate(pg) ==
    /\ pg # page
    /\ page' = pg
    /\ query' = <<>>
    /\ filterSpeaker' = Null
    /\ filterEntity' = <<>>
    /\ fuse' = IF pg = "search" \/ ContentShown THEN FuseMemo(data) ELSE Null
    /\ results' = ResultsAfter(pg, data, FuseMemo(data), <<>>, Null, <<>>)
    /\ filtered' = FilteredAfter(pg, ContentShown, data, FuseMemo(data), <<>>, Null, <<>>)
    /\ UNCHANGED <<data, loading, error,
                 highlightVars, askVars, sideVars>>

\* onChange={(e) => setQuery(e.target.value)}, and the render that follows
SetQuery(q) ==
    /\ ContentShown
    /\ query' = q
    /\ results' = ResultsAfter(page, data, fuse, q, filterSpeaker, filterEntity)
    /\ filtered' = FilteredAfter(page, TRUE, data, fuse, q, filterSpeaker, filterEntity)
    /\ UNCHANGED <<data, loading, error, page, filterSpeaker, filterEntity, fuse,
                 highlightVars, askVars, sideVars>>

\* setFilterSpeaker(e.target.value === "all" ? null : Number(e.target.value))
SetFilterSpeaker(fs) ==
    /\ ContentShown
    /\ filterSpeaker' = fs
    /\ results' = ResultsAfter(page, data, fuse, query, fs, filterEntity)
    /\ filtered' = FilteredAfter(page, TRUE, data, fuse, query, fs, filterEntity)
    /\ UNCHANGED <<data, loading, error, page, query, filterEntity, fuse,
                 highlightVars, askVars, sideVars>>

\* onChange={(e) => setFilterEntity(e.target.value)}
SetFilterEntity(fe) ==
    /\ ContentShown
    /\ filterEntity' = fe
    /\ results' = ResultsAfter(page, data, fuse, query, filterSpeaker, fe)
    /\ filtered' = FilteredAfter(page, TRUE, data, fuse, query, filterSpeaker, fe)
    /\ UNCHANGED <<data, loading, error, page, query, filterSpeaker, fuse,
                 highlightVars, askVars, sideVars>>

Next ==
    \/ \E d \in Transcripts : FetchResolve(d)
    \/ FetchReject
    \/ FetchFinally
    \/ \E pg \in Pages : Navigate(pg)
    \/ \E q \in Queries : SetQuery(q)
    \/ \E fs \in {Null} \cup {Some(x) : x \in SpeakerOptions(data)} : SetFilterSpeaker(fs)
    \/ \E fe \in {<<>>} \cup EntityOptions(data) : SetFilterEntity(fe)

Spec == Init /\ [][Next]_vars

-----------------------------------------------------------------------------
(* highlightText: the regular expression, split and test                    *)

\* The characters of the class /[.*+?^${}()|[\]\\]/ .
RegExpSpecial == {".", "*", "+", "?", "^", "$", "{", "}", "(", ")", "|", "[", "]", "\\"}

\* query.replace(/[.*+?^${}()|[\]\\]/g, "\\$&") left out.
Unescaped(q) == q

\* query.replace(/[.*+?^${}()|[\]\\]/g, "\\$&")
RECURSIVE EscapeRegExp(_)
EscapeRegExp(q) ==
    IF q = <<>> THEN <<>>
    ELSE (IF Head(q) \in RegExpSpecial THEN <<"\\", Head(q)>> ELSE <<Head(q)>>)
             \o EscapeRegExp(Tail(q))

\* The pattern source `(${escaped})`.
RegExpSource(q) == <<"(">> \o EscapeRegExp(q) \o <<")">>

\* The atoms of a pattern body: a backslash makes the next character a
\* literal, a bare "." is the wildcard, any other character is a literal.
RECURSIVE ParseAtoms(_)
ParseAtoms(body) ==
    IF body = <<>> THEN <<>>
    ELSE IF Head(body) = "\\" /\ Len(body) >= 2
    THEN <<[any |-> FALSE, c |-> body[2]]>> \o ParseAtoms(SubSeq(body, 3, Len(body)))
    ELSE IF Head(body) = "."
    THEN <<[any |-> TRUE, c |-> "."]>> \o ParseAtoms(Tail(body))
    ELSE <<[any |-> FALSE, c |-> Head(body)]>> \o ParseAtoms(Tail(body))

\* new RegExp(source, "gi"): the atoms inside the one capture group.
CompileRegExp(source) == ParseAtoms(SubSeq(source, 2, Len(source) - 1))

\* One atom against one character under the i flag.
AtomMatches(atom, c) ==
    IF atom.any THEN c # "\n" ELSE LowerChar(atom.c) = LowerChar(c)

\* The pattern matches s at offset pos (0-based).
RegExpMatchesAt(atoms, s, pos) ==
    /\ pos + Len(atoms) <= Len(s)
    /\ \A k \in 1..Len(atoms) : AtomMatches(atoms[k], s[pos + k])

\* The offset of the leftmost match at or after from, or -1.
RegExpExec(atoms, s, from) ==
    IF \E p \in from..(Len(s) - Len(atoms)) : RegExpMatchesAt(atoms, s, p)
    THEN CHOOSE p \in from..(Len(s) - Len(atoms)) :
             /\ RegExpMatchesAt(atoms, s, p)
             /\ \A r \in from..(p - 1) : ~RegExpMatchesAt(atoms, s, r)
    ELSE -1

\* regex.test(part) of a global regex: the search starts at lastIndex, a match
\* leaves lastIndex at its end, a failure resets lastIndex to 0.
TestResult(atoms, at) ==
    IF at < 0 THEN [found |-> FALSE, lastIndex |-> 0]
    ELSE [found |-> TRUE, lastIndex |-> at + Len(atoms)]

RegExpTest(atoms, part, li) ==
    IF li > Len(part) THEN [found |-> FALSE, lastIndex |-> 0]
    ELSE TestResult(atoms, RegExpExec(atoms, part, li))

\* text.split(regex) with one capture group: the stretch before each match,
\* then the match (the group), and the rest of the text last.
RECURSIVE SplitFrom(_, _, _)
SplitAt(atoms, s, p, at) ==
    IF at < 0 THEN <<SubSeq(s, p + 1, Len(s))>>
    ELSE <<SubSeq(s, p + 1, at), SubSeq(s, at + 1, at + Len(atoms))>>
             \o SplitFrom(atoms, s, at + Len(atoms))

SplitFrom(atoms, s, p) == SplitAt(atoms, s, p, RegExpExec(atoms, s, p))

Split(atoms, s) == IF s = <<>> THEN <<s>> ELSE SplitFrom(atoms, s, 0)

\* The longest text highlighted in the model.
MaxTextLen == 5

HighlightAlphabet == {"a", "A", "."}

HighlightTexts == UNION {[1..n -> HighlightAlphabet] : n \in 0..MaxTextLen}

HighlightQueries ==
    {<<>>, <<" ">>, <<"a">>, <<".">>, <<"a", ".">>, <<"a", "a">>, <<".", "A">>}

\* A render calls highlightText(text) with the page's query.
HighlightInit ==
    /\ data = Null /\ loading = FALSE /\ error = Null /\ page \in Pages
    /\ query \in HighlightQueries
    /\ filterSpeaker = Null /\ filterEntity = <<>> /\ fuse = Null
    /\ results = <<>> /\ filtered = <<>>
    /\ highlighted \in HighlightTexts
    /\ regex = Null /\ parts = <<>> /\ lastIndex = 0 /\ rendered = <<>>
    /\ hpc = "call"
    /\ AskMounted
    /\ SideIdle

\* if (!query.trim()) return text; else build the regex and split the text
HighlightCall ==
    /\ hpc = "call"
    /\ IF Trim(query) = <<>>
       THEN /\ rendered' = <<[mark |-> FALSE, part |-> highlighted]>>
            /\ hpc' = "done"
            /\ UNCHANGED <<regex, parts>>
       ELSE /\ regex' = Some(CompileRegExp(RegExpSource(query)))
            /\ parts' = Split(CompileRegExp(RegExpSource(query)), highlighted)
            /\ hpc' = "map"
            /\ UNCHANGED rendered
    /\ UNCHANGED <<highlighted, lastIndex, searchVars, askVars, sideVars>>

\* One step of parts.map((part, i) => regex.test(part) ? <mark>part</mark> : part)
MapStep(part, t) ==
    /\ rendered' = Append(rendered, [mark |-> t.found, part |-> part])
    /\ lastIndex' = t.lastIndex

HighlightMap ==
    /\ hpc = "map"
    /\ MapStep(parts[Len(rendered) + 1],
               RegExpTest(regex[1], parts[Len(rendered) + 1], lastIndex))
    /\ hpc' = IF Len(rendered) + 1 = Len(parts) THEN "done" ELSE "map"
    /\ UNCHANGED <<highlighted, regex, parts, searchVars, askVars, sideVars>>

HighlightNext == HighlightCall \/ HighlightMap

HighlightSpec == HighlightInit /\ [][HighlightNext]_vars

-----------------------------------------------------------------------------
(* highlightText: claim C6, under HighlightSpec                             *)

\* The raw query occurs in the highlighted text at offset p, letter case apart.
OccursAt(p) ==
    /\ p + Len(query) <= Len(highlighted)
    /\ \A k \in 1..Len(query) : LowerChar(highlighted[p + k]) = LowerChar(query[k])

\* The offsets of the occurrences taken left to right without overlap.
RECURSIVE OccurrencesFrom(_)
OccurrencesFrom(from) ==
    IF \E p \in from..Len(highlighted) : OccursAt(p)
    THEN LET first == CHOOSE p \in from..Len(highlighted) :
                          OccursAt(p) /\ \A r \in from..(p - 1) : ~OccursAt(r)
         IN  {first} \cup OccurrencesFrom(first + Len(query))
    ELSE {}

RECURSIVE Concat(_)
Concat(ps) == IF ps = <<>> THEN <<>> ELSE Head(ps).part \o Concat(Tail(ps))

\* The offset in the text at which rendered part k starts.
OffsetOf(k) == Len(Concat(SubSeq(rendered, 1, k - 1)))

MarkedOffsets == {OffsetOf(k) : k \in {j \in 1..Len(rendered) : rendered[j].mark}}

\* C6: the parts highlightText returns concatenate to the text; with a
\* non-blank query the marked parts are exactly the occurrences of the raw
\* query, taken literally, letter case apart, left to right without overlap,
\* and every part mapped so far is marked iff it is such an occurrence; with
\* a blank query the text is returned unmarked.
C6_MarksLiteralOccurrences ==
    /\ \A k \in 1..Len(rendered) :
           rendered[k].mark <=> (/\ Trim(query) # <<>>
                                 /\ Len(rendered[k].part) = Len(query)
                                 /\ OffsetOf(k) \in OccurrencesFrom(0))
    /\ hpc = "done" =>
           /\ Concat(rendered) = highlighted
           /\ MarkedOffsets = (IF Trim(query) = <<>> THEN {} ELSE OccurrencesFrom(0))

\* Two adjacent occurrences, the first at the start of the text and the last
\* at its end, one in another letter case, of a query holding a regex
\* metacharacter; lastIndex was carried into the test of the part between them.
C6_Witness ==
    /\ hpc = "done"
    /\ \E c \in Range(query) : c \in RegExpSpecial
    /\ Len(rendered) = 5
    /\ rendered[2].mark /\ rendered[4].mark
    /\ rendered[1].part = <<>> /\ rendered[3].part = <<>> /\ rendered[5].part = <<>>
    /\ rendered[2].part # rendered[4].part

-----------------------------------------------------------------------------
(* The result lists: claims C1 to C5, under Spec                            *)

Paragraphs == IF data = Null THEN <<>> ELSE data[1].paragraphs

\* A list is computed: SearchPage computes results before its guards,
\* TranscriptContent is mounted past them.
ListActive == data # Null /\ (page = "search" \/ ContentShown)

\* The list of the mounted page, as { index, paragraph } entries.
Listed ==
    IF page = "search" THEN [k \in 1..Len(results) |->
                                [index |-> results[k].index, paragraph |-> results[k].paragraph]]
    ELSE [k \in 1..Len(filtered) |->
             [index |-> filtered[k].idx, paragraph |-> filtered[k].para]]

ListedIndices == {Listed[k].index : k \in 1..Len(Listed)}

\* The search page's list is at the cap.
ListFull == page = "search" /\ Len(results) = 100

\* s contains pat, letter case apart.
ContainsIgnoringCase(s, pat) ==
    \E p \in 0..(Len(s) - Len(pat)) :
        \A k \in 1..Len(pat) : LowerChar(s[p + k]) = LowerChar(pat[k])

\* Paragraph i (counted from 0) passes the text query, the speaker filter,
\* the entity filter.
PassesQuery(i) ==
    \/ Trim(query) = <<>>
    \/ ~IsBlank(Paragraphs[i + 1].text) /\ SearchIn(Paragraphs[i + 1].text, query).isMatch

PassesSpeaker(i) == filterSpeaker = Null \/ Paragraphs[i + 1].speaker = filterSpeaker

PassesEntity(i) ==
    filterEntity = <<>> \/ ContainsIgnoringCase(Paragraphs[i + 1].text, filterEntity)

\* The relevance of paragraph i to the query: its match score, larger is better.
Relevance(i) ==
    NegLogScore(SearchIn(Paragraphs[i + 1].text, query).score,
                Norm1000(NumTokens(Paragraphs[i + 1].text)))

\* Paragraph i is listed before paragraph j.
ListedBefore(i, j) ==
    IF Trim(query) = <<>> THEN i < j
    ELSE \/ Relevance(i) > Relevance(j)
         \/ Relevance(i) = Relevance(j) /\ i < j

\* C1: with an empty query and no filter the search page lists exactly the
\* first min(N, 100) paragraphs, in transcript order, each with its own index.
C1_EmptyQueryListsFirstHundred ==
    (page = "search" /\ data # Null /\ Trim(query) = <<>>
        /\ filterSpeaker = Null /\ filterEntity = <<>>)
    => /\ Len(results) = Min(Len(Paragraphs), 100)
       /\ \A k \in 1..Len(results) :
              /\ results[k].index = k - 1
              /\ results[k].paragraph = Paragraphs[k]

C1_Witness ==
    /\ page = "search" /\ ContentShown
    /\ query = <<>> /\ filterSpeaker = Null /\ filterEntity = <<>>
    /\ Len(Paragraphs) > 100
    /\ Len(results) = 100
    /\ results[100].index = 99

IndicesOf(matches) == {matches[k].index : k \in 1..Len(matches)}

IdxOf(entries) == {entries[k].idx : k \in 1..Len(entries)}

\* The matches of the search page before the cap.
Uncapped(fs, fe) == FilterByEntity(FilterBySpeaker(TextMatches(data, fuse, query), fs), fe)

\* C3 as stated: the results with a filter applied are a subset of the
\* results for the same query with that filter removed.
C3_SubsetOfResultsWithoutFilter ==
    /\ (page = "search" /\ data # Null) =>
          /\ IndicesOf(results) \subseteq
                 IndicesOf(SearchPageResults(data, fuse, query, Null, filterEntity))
          /\ IndicesOf(results) \subseteq
                 IndicesOf(SearchPageResults(data, fuse, query, filterSpeaker, <<>>))
    /\ (page = "transcript" /\ ContentShown) =>
          /\ IdxOf(filtered) \subseteq
                 IdxOf(TranscriptFiltered(data, fuse, query, Null, filterEntity))
          /\ IdxOf(filtered) \subseteq
                 IdxOf(TranscriptFiltered(data, fuse, query, filterSpeaker, <<>>))

\* C3, amended: the results with a filter applied are no more numerous than
\* the results with that filter removed, each of them matches with the
\* filter removed, and they are a subset of the list with the filter removed
\* when that list is not cut by the cap.
C3_FiltersOnlyNarrow ==
    /\ (page = "search" /\ data # Null) =>
          /\ Len(results) <= Len(SearchPageResults(data, fuse, query, Null, filterEntity))
          /\ Len(results) <= Len(SearchPageResults(data, fuse, query, filterSpeaker, <<>>))
          /\ IndicesOf(results) \subseteq IndicesOf(Uncapped(Null, filterEntity))
          /\ IndicesOf(results) \subseteq IndicesOf(Uncapped(filterSpeaker, <<>>))
          /\ Len(Uncapped(Null, filterEntity)) <= 100 =>
                 IndicesOf(results) \subseteq
                     IndicesOf(SearchPageResults(data, fuse, query, Null, filterEntity))
          /\ Len(Uncapped(filterSpeaker, <<>>)) <= 100 =>
                 IndicesOf(results) \subseteq
                     IndicesOf(SearchPageResults(data, fuse, query, filterSpeaker, <<>>))
    /\ (page = "transcript" /\ ContentShown) =>
          /\ IdxOf(filtered) \subseteq
                 IdxOf(TranscriptFiltered(data, fuse, query, Null, filterEntity))
          /\ IdxOf(filtered) \subseteq
                 IdxOf(TranscriptFiltered(data, fuse, query, filterSpeaker, <<>>))

C3_Witness ==
    /\ page = "search" /\ ContentShown
    /\ filterSpeaker # Null
    /\ Len(Uncapped(Null, filterEntity)) > 100
    /\ Len(results) > 0
    /\ Len(results) < Len(SearchPageResults(data, fuse, query, Null, filterEntity))
    /\ ~(IndicesOf(results) \subseteq
            IndicesOf(SearchPageResults(data, fuse, query, Null, filterEntity)))

\* C4: with a speaker selected, every listed paragraph has exactly that
\* speaker (so none is unassigned), and every paragraph that passes the query
\* and the entity filter and has that speaker is listed, unless the search
\* page's list is at the cap.
C4_SpeakerFilterExact ==
    (ListActive /\ filterSpeaker # Null)
    => /\ \A k \in 1..Len(Listed) :
              /\ Listed[k].paragraph.speaker # Null
              /\ Listed[k].paragraph.speaker[1] = filterSpeaker[1]
              /\ PassesQuery(Listed[k].index)
       /\ \A i \in 0..(Len(Paragraphs) - 1) :
              (PassesQuery(i) /\ PassesEntity(i) /\ Paragraphs[i + 1].speaker = filterSpeaker)
              => (i \in ListedIndices \/ ListFull)

C4_Witness ==
    /\ ListActive /\ ContentShown
    /\ filterSpeaker # Null
    /\ Trim(query) # <<>>
    /\ Len(Listed) > 0
    /\ \E i \in 0..(Len(Paragraphs) - 1) :
           PassesQuery(i) /\ PassesEntity(i) /\ Paragraphs[i + 1].speaker = Null
    /\ \E i \in 0..(Len(Paragraphs) - 1) :
           /\ PassesQuery(i) /\ PassesEntity(i)
           /\ Paragraphs[i + 1].speaker \notin {Null, filterSpeaker}

\* C5: with an entity selected, a paragraph is listed only if its text
\* contains the entity's value, letter case apart, and every paragraph whose
\* text does and that passes the query and the speaker filter is listed,
\* unless the search page's list is at the cap.
C5_EntityFilterSubstring ==
    (ListActive /\ filterEntity # <<>>)
    => /\ \A k \in 1..Len(Listed) :
              /\ ContainsIgnoringCase(Listed[k].paragraph.text, filterEntity)
              /\ PassesQuery(Listed[k].index)
              /\ PassesSpeaker(Listed[k].index)
       /\ \A i \in 0..(Len(Paragraphs) - 1) :
              (PassesQuery(i) /\ PassesSpeaker(i)
                   /\ ContainsIgnoringCase(Paragraphs[i + 1].text, filterEntity))
              => (i \in ListedIndices \/ ListFull)

\* A listed paragraph holds the value in another letter case, and a paragraph
\* passing the other tests is left out.
C5_Witness ==
    /\ ListActive /\ ContentShown
    /\ filterEntity # <<>>
    /\ \E k \in 1..Len(Listed) : ~Includes(Listed[k].paragraph.text, filterEntity)
    /\ \E i \in 0..(Len(Paragraphs) - 1) :
           PassesQuery(i) /\ PassesSpeaker(i) /\ i \notin ListedIndices

-----------------------------------------------------------------------------
(* FuseSpec: the pages searching transcripts of a few words with misspelt   *)
(* and ten-character queries                                                *)

TypoChars == {"x"}

FuzzyWords ==
    { Ab,
      <<"a", "b", "c">>,
      Ehud,
      <<"b", "a", "r", "a", "k">>,
      <<"e", "p", "s", "t", "e", "i", "n">>,
      <<"a", "b", "c", "d", "e", "f", "g", "h", "i", "j">> }

Without(w, i) == SubSeq(w, 1, i - 1) \o SubSeq(w, i + 1, Len(w))

Substitutions(w) == {[w EXCEPT ![i] = c] : i \in 1..Len(w), c \in TypoChars} \ {w}

Deletions(w) == {Without(w, i) : i \in 1..Len(w)}

Insertions(w) ==
    {SubSeq(w, 1, i) \o <<c>> \o SubSeq(w, i + 1, Len(w)) : i \in 0..Len(w), c \in TypoChars}

Swapped(w, i) == [w EXCEPT ![i] = w[i + 1], ![i + 1] = w[i]]

Transpositions(w) == {Swapped(w, i) : i \in 1..(Len(w) - 1)} \ {w}

\* w with the characters at the positions of ps replaced by "x".
Crossed(w, ps) == [i \in 1..Len(w) |-> IF i \in ps THEN "x" ELSE w[i]]

TyposOf(w) == Substitutions(w) \cup Deletions(w) \cup Insertions(w) \cup Transpositions(w)

\* The ten-character probes made of w: some of its characters crossed out.
ProbesOf(w) ==
    IF Len(w) = 10
    THEN {Crossed(w, ps) : ps \in SUBSET {2, 4, 6, 8, 10}} \cup {Crossed(w, 1..10)}
    ELSE {}

\* The queries typed against a loaded transcript: the typos of its first
\* paragraph's word, and the probes made of it.
FuzzyQueries(d) ==
    IF d = Null \/ d[1].paragraphs = <<>> THEN {}
    ELSE TyposOf(d[1].paragraphs[1].text) \cup ProbesOf(d[1].paragraphs[1].text)

\* The word alone | the word between two others | a paragraph without it.
FuzzyTranscript(w) ==
    [paragraphs |-> << Para(Some(0), 0, 1, w),
                       Para(Some(1), 1, 2, <<"z">> \o Sp \o w \o Sp \o <<"z">>),
                       Para(Null, 2, 3, <<"z", "z">>) >>,
     entities   |-> << Entity(w, 0, 1) >>,
     speakers   |-> <<0, 1>>]

FuzzyTranscripts == {FuzzyTranscript(w) : w \in FuzzyWords}

FuseNext ==
    \/ \E d \in FuzzyTranscripts : FetchResolve(d)
    \/ FetchReject
    \/ FetchFinally
    \/ \E q \in FuzzyQueries(data) : SetQuery(q)

FuseSpec == Init /\ [][FuseNext]_vars

-----------------------------------------------------------------------------
(* Fuzzy matching: claims C7 and C8, under FuseSpec                         *)

\* The words of a text: its maximal stretches without a space.
WordsOf(s) ==
    {SubSeq(s, r[1], r[2]) :
        r \in {x \in (1..Len(s)) \X (1..Len(s)) :
                  /\ x[1] <= x[2]
                  /\ \A k \in x[1]..x[2] : ~IsSpace(s[k])
                  /\ (x[1] = 1 \/ IsSpace(s[x[1] - 1]))
                  /\ (x[2] = Len(s) \/ IsSpace(s[x[2] + 1]))}}

\* q is w with one character replaced, left out, added, or with two
\* neighbouring characters exchanged.
IsSubstitution(q, w) ==
    Len(q) = Len(w) /\ Cardinality({i \in 1..Len(w) : q[i] # w[i]}) = 1

IsDeletion(q, w) == Len(q) + 1 = Len(w) /\ \E i \in 1..Len(w) : q = Without(w, i)

IsInsertion(q, w) == IsDeletion(w, q)

IsTranspositionAt(q, w, i) == w[i] # w[i + 1] /\ q = Swapped(w, i)

IsTransposition(q, w) ==
    Len(q) = Len(w) /\ \E i \in 1..(Len(w) - 1) : IsTranspositionAt(q, w, i)

IsTypoOf(q, w) ==
    IsSubstitution(q, w) \/ IsDeletion(q, w) \/ IsInsertion(q, w) \/ IsTransposition(q, w)

\* The typos the matcher's error allowance covers: the query has at least 4
\* characters, and an exchange of two characters is at the word's start or
\* end unless the query has at least 7 characters.
IsToleratedTypoOf(q, w) ==
    /\ Len(q) >= 4
    /\ \/ IsSubstitution(q, w) \/ IsDeletion(q, w) \/ IsInsertion(q, w)
       \/ /\ Len(q) = Len(w)
          /\ \/ IsTranspositionAt(q, w, 1)
             \/ IsTranspositionAt(q, w, Len(w) - 1)
             \/ Len(q) >= 7 /\ IsTransposition(q, w)

NoFilters == filterSpeaker = Null /\ filterEntity = <<>>

EditRow(prev, pat, s, i) ==
    LET step == [j \in 0..Len(s) |->
                    IF j = 0 THEN i
                    ELSE Min(prev[j] + (IF pat[i] = s[j] THEN 0 ELSE 1), prev[j + 1] + 1)]
        row  == [j \in 0..Len(s) |->
                    CHOOSE e \in {step[k] + (j - k) : k \in 0..j} :
                        \A f \in {step[k] + (j - k) : k \in 0..j} : e <= f]
    IN  SubSeq([j \in 1..(Len(s) + 1) |-> row[j - 1]], 1, Len(s) + 1)

RECURSIVE EditRows(_, _, _, _)
EditRows(prev, pat, s, i) ==
    IF i > Len(pat) THEN prev
    ELSE EditRows(EditRow(prev, pat, s, i), pat, s, i + 1)

EditsToStretch(pat, s) ==
    LET last == EditRows(SubSeq([j \in 1..(Len(s) + 1) |-> 0], 1, Len(s) + 1), pat, s, 1)
    IN  CHOOSE e \in Range(last) : \A f \in Range(last) : e <= f

\* The query occurs in no paragraph, letter case apart.
QueryAbsent ==
    \A i \in 0..(Len(Paragraphs) - 1) : ~ContainsIgnoringCase(Paragraphs[i + 1].text, query)

-----------------------------------------------------------------------------
(* The ask page and askQuestion                                             *)

\* The content of the message handleSubmit appends in its catch block.
ErrorText == "Sorry, I encountered an error processing your question. Please try again."

\* A settled askQuestion promise.
Rejected == [rejected |-> TRUE, value |-> Null]

Fulfilled(v) == [rejected |-> FALSE, value |-> Some(v)]

\* askQuestion without the res.ok test.
AskQuestionIgnoringStatus(resp) ==
    IF resp.failed THEN Rejected
    ELSE IF resp.body = Null THEN Rejected
    ELSE Fulfilled(resp.body[1])

\* askQuestion(question), given what the fetch delivers: fetch itself rejects
\* (resp.failed), or resolves with a status (resp.ok) and a body that is JSON
\* (Some) or not (Null, res.json() rejects).
\*   if (!res.ok) throw new Error("Failed to get answer"); return res.json()
AskQuestion(resp) ==
    IF resp.failed THEN Rejected
    ELSE IF ~resp.ok THEN Rejected
    ELSE IF resp.body = Null THEN Rejected
    ELSE Fulfilled(resp.body[1])

\* The sources cut to the first one.
AssistantMessageTopSource(outcome) ==
    IF outcome.rejected
    THEN [role |-> "assistant", content |-> ErrorText, sources |-> Null]
    ELSE [role    |-> "assistant",
          content |-> outcome.value[1].answer,
          sources |-> IF outcome.value[1].sources = Null
                      THEN Some(<<>>)
                      ELSE Some(Slice0(outcome.value[1].sources[1], 1))]

\* The message handleSubmit appends once the promise settles: the answer with
\* result.sources || [], or the fixed error text with no sources field.
AssistantMessage(outcome) ==
    IF outcome.rejected
    THEN [role |-> "assistant", content |-> ErrorText, sources |-> Null]
    ELSE [role    |-> "assistant",
          content |-> outcome.value[1].answer,
          sources |-> IF outcome.value[1].sources = Null
                      THEN Some(<<>>)
                      ELSE outcome.value[1].sources]

\* { role: "user", content: question }
UserMessage(question) == [role |-> "user", content |-> question, sources |-> Null]

\* The source cards rendered under a message, each with the speaker, start and
\* text it is given:
\*   msg.sources && msg.sources.length > 0 && ( ... msg.sources.map(...) )
SourcesShown(msg) ==
    IF msg.sources = Null THEN <<>>
    ELSE IF Len(msg.sources[1]) = 0 THEN <<>>
    ELSE [j \in 1..Len(msg.sources[1]) |->
             [speaker |-> msg.sources[1][j].speaker,
              start   |-> msg.sources[1][j].start,
              text    |-> msg.sources[1][j].text]]

\* A request body that carries the conversation as well.
AskFetchWithHistory(question) ==
    [url     |-> "/api/ask",
     method  |-> "POST",
     headers |-> "Content-Type: application/json",
     body    |-> [question |-> question, history |-> messages]]

\* The fetch call of askQuestion(question):
\*   fetch(`${API_BASE}/api/ask`, { method: "POST", headers: ..., body: JSON.stringify({ question }) })
AskFetch(question) ==
    [url     |-> "/api/ask",
     method  |-> "POST",
     headers |-> "Content-Type: application/json",
     body    |-> [question |-> question]]

\* isLoading cleared only where the try block completes.
LoadingAfterTryOnly(outcome) == outcome.rejected

\* finally { setIsLoading(false) }
LoadingAfter(outcome) == FALSE

\* The questions asked in one run of the model.
MaxQuestions == 2

AskInputs == {<<>>, <<" ">>, <<"q">>, <<" ", "r", " ">>}

Source1 == [text |-> "excerpt", speaker |-> Some(0), start |-> 12]

Source2 == [text |-> "another", speaker |-> Null, start |-> 3]

AskBodies ==
    { [answer |-> "He said so in the second hour.", sources |-> Some(<<Source1>>)],
      [answer |-> "They met twice.", sources |-> Some(<<Source2, Source1>>)],
      [answer |-> "Nothing in the transcript says.", sources |-> Some(<<>>)],
      [answer |-> "I don't know.", sources |-> Null] }

AskResponses ==
    {[failed |-> TRUE, ok |-> FALSE, body |-> Null]}
    \cup {[failed |-> FALSE, ok |-> o, body |-> b] :
             o \in BOOLEAN, b \in {Null} \cup {Some(x) : x \in AskBodies}}

AskInit ==
    /\ data = Null /\ loading = TRUE /\ error = Null /\ page = "ask"
    /\ query = <<>> /\ filterSpeaker = Null /\ filterEntity = <<>> /\ fuse = Null
    /\ results = <<>> /\ filtered = <<>>
    /\ HighlightIdle
    /\ AskMounted
    /\ SideIdle

\* onChange={(e) => setInput(e.target.value)} on an input disabled={isLoading}
SetInput(v) ==
    /\ ~isLoading
    /\ input' = v
    /\ UNCHANGED <<messages, isLoading, pending, requests, sent, dropped, responses,
                   searchVars, highlightVars, sideVars>>

\* The submit events counted as dropped in one run of the model.
MaxDropped == 1

\* The count of submits dropped while loading, after one more submit.
Dropped(n, busy) == IF busy /\ n < MaxDropped THEN n + 1 ELSE n

\* handleSubmit with no isLoading test and no setInput("").
HandleSubmitUnguarded ==
    /\ Len(requests) < MaxQuestions
    /\ IF Trim(input) = <<>>
       THEN UNCHANGED <<messages, isLoading, pending, requests, sent>>
       ELSE /\ messages' = Append(messages, UserMessage(Trim(input)))
            /\ isLoading' = TRUE
            /\ pending' = Some(Trim(input))
            /\ requests' = Append(requests, Trim(input))
            /\ sent' = Append(sent, AskFetch(Trim(input)))
    /\ UNCHANGED <<input, dropped, responses, searchVars, highlightVars, sideVars>>

\* handleSubmit with const question = input: no trim().
HandleSubmitUntrimmed ==
    /\ Len(requests) < MaxQuestions
    /\ IF input = <<>> \/ isLoading
       THEN /\ dropped' = Dropped(dropped, isLoading)
            /\ UNCHANGED <<input, messages, isLoading, pending, requests, sent>>
       ELSE /\ input' = <<>>
            /\ messages' = Append(messages, UserMessage(input))
            /\ isLoading' = TRUE
            /\ pending' = Some(input)
            /\ requests' = Append(requests, input)
            /\ sent' = Append(sent, AskFetch(input))
            /\ UNCHANGED dropped
    /\ UNCHANGED <<responses, searchVars, highlightVars, sideVars>>

\* handleSubmit up to its await: nothing for a blank input or while loading,
\* else the input is cleared, the user's message appended, isLoading set and
\* askQuestion(question) POSTs the question.
HandleSubmit ==
    /\ Len(requests) < MaxQuestions
    /\ IF Trim(input) = <<>> \/ isLoading
       THEN /\ dropped' = Dropped(dropped, isLoading)
            /\ UNCHANGED <<input, messages, isLoading, pending, requests, sent>>
       ELSE /\ input' = <<>>
            /\ messages' = Append(messages, UserMessage(Trim(input)))
            /\ isLoading' = TRUE
            /\ pending' = Some(Trim(input))
            /\ requests' = Append(requests, Trim(input))
            /\ sent' = Append(sent, AskFetch(Trim(input)))
            /\ UNCHANGED dropped
    /\ UNCHANGED <<responses, searchVars, highlightVars, sideVars>>

\* handleSubmit past its await: the try or the catch block, then finally.
Settle(resp) ==
    /\ pending # Null
    /\ messages' = Append(messages, AssistantMessage(AskQuestion(resp)))
    /\ isLoading' = LoadingAfter(AskQuestion(resp))
    /\ pending' = Null
    /\ responses' = Append(responses, resp)
    /\ UNCHANGED <<input, requests, sent, dropped>>

\* The fetch in flight is delivered resp and handleSubmit resumes on it.
AskSettle(resp) ==
    /\ Settle(resp)
    /\ UNCHANGED <<searchVars, highlightVars, sideVars>>

AskNext ==
    \/ \E v \in AskInputs : SetInput(v)
    \/ HandleSubmit
    \/ \E resp \in AskResponses : AskSettle(resp)

AskSpec == AskInit /\ [][AskNext]_vars

-----------------------------------------------------------------------------
(* The ask page: claims C9 and C10, under AskSpec                           *)

\* The fetch failed, or delivered a non-OK status or a body that is not JSON.
FailedResponse(r) == r.failed \/ ~r.ok \/ r.body = Null

\* C9: the message recorded for a failed ask is the fixed error text with no
\* sources, never the answer or the sources of the failed response's body,
\* and the message recorded for an ask that succeeded always has sources and
\* the response's answer, so the two are told apart.
C9_FailureShownAsError ==
    \A k \in 1..Len(responses) :
        /\ 2 * k <= Len(messages)
        /\ messages[2 * k].role = "assistant"
        /\ IF FailedResponse(responses[k])
           THEN /\ messages[2 * k].content = ErrorText
                /\ messages[2 * k].sources = Null
                /\ responses[k].body # Null =>
                       /\ messages[2 * k].content # responses[k].body[1].answer
                       /\ responses[k].body[1].sources # Null =>
                              messages[2 * k].sources # responses[k].body[1].sources
           ELSE /\ messages[2 * k].content = responses[k].body[1].answer
                /\ messages[2 * k].sources # Null

\* A non-OK response carrying an answer and sources, shown as the error, in
\* the same conversation as a genuine "I don't know." answer.
C9_Witness ==
    /\ Len(responses) = 2 /\ Len(messages) = 4
    /\ ~responses[1].failed /\ ~responses[1].ok /\ responses[1].body # Null
    /\ responses[1].body[1].sources # Null
    /\ messages[2].content = ErrorText
    /\ ~FailedResponse(responses[2])
    /\ messages[4].content = "I don't know."

UserMessages == SelectSeq(messages, LAMBDA m : m.role = "user")

\* C10: every accepted question is POSTed exactly once, whatever the outcome:
\* the requests are the user's messages one for one, each request has had its
\* response or is the one in flight, and isLoading is set exactly while a
\* request is in flight, so after a failure the user can submit again.
C10_OneRequestPerQuestion ==
    /\ Len(requests) = Len(UserMessages)
    /\ \A k \in 1..Len(requests) : requests[k] = UserMessages[k].content
    /\ Len(requests) = Len(responses) + (IF pending = Null THEN 0 ELSE 1)
    /\ pending # Null => pending[1] = requests[Len(requests)]
    /\ isLoading <=> pending # Null
    /\ Len(messages) = Len(requests) + Len(responses)

\* The user has asked the same question again after a failure.
C10_Witness ==
    /\ Len(requests) = 2 /\ Len(responses) = 1
    /\ FailedResponse(responses[1])
    /\ messages[2].content = ErrorText
    /\ requests[2] = requests[1]
    /\ pending # Null /\ isLoading

\* The sources a response carries: its list, or none where the field is absent.
SourcesOf(r) ==
    IF r.body[1].sources = Null THEN <<>> ELSE r.body[1].sources[1]

\* C11: the source cards shown with an answer are the sources of the response
\* that brought that answer, in the same order and with the same text, speaker
\* and start (none when the response has none), the answer is that response's
\* answer and it stands after the question it was requested for; an error
\* message shows no sources.
C11_SourcesAreThoseOfTheResponse ==
    \A k \in 1..Len(responses) :
        /\ messages[2 * k - 1] = UserMessage(requests[k])
        /\ IF FailedResponse(responses[k])
           THEN SourcesShown(messages[2 * k]) = <<>>
           ELSE /\ messages[2 * k].content = responses[k].body[1].answer
                /\ Len(SourcesShown(messages[2 * k])) = Len(SourcesOf(responses[k]))
                /\ \A j \in 1..Len(SourcesOf(responses[k])) :
                       /\ SourcesShown(messages[2 * k])[j].text = SourcesOf(responses[k])[j].text
                       /\ SourcesShown(messages[2 * k])[j].speaker = SourcesOf(responses[k])[j].speaker
                       /\ SourcesShown(messages[2 * k])[j].start = SourcesOf(responses[k])[j].start

\* Two answers in one conversation, the first with two sources in the order
\* returned and the second with one, each shown with its own.
C11_Witness ==
    /\ Len(responses) = 2 /\ Len(messages) = 4
    /\ ~FailedResponse(responses[1]) /\ ~FailedResponse(responses[2])
    /\ SourcesOf(responses[1]) = <<Source2, Source1>>
    /\ SourcesOf(responses[2]) = <<Source1>>
    /\ Len(SourcesShown(messages[2])) = 2
    /\ SourcesShown(messages[2])[1].text = "another"
    /\ Len(SourcesShown(messages[4])) = 1

\* C12: every request sent is the POST to /api/ask whose body holds the
\* question and nothing else, so two submissions of the same question send
\* identical requests whatever the message list held when they were sent.
C12_RequestHoldsOnlyTheQuestion ==
    /\ Len(sent) = Len(requests)
    /\ \A k \in 1..Len(sent) :
           /\ sent[k].url = "/api/ask"
           /\ sent[k].method = "POST"
           /\ DOMAIN sent[k].body = {"question"}
           /\ sent[k].body.question = requests[k]
    /\ \A j, k \in 1..Len(sent) : requests[j] = requests[k] => sent[j] = sent[k]

\* The same question sent first with an empty message list and again after an
\* answer with sources has been received.
C12_Witness ==
    /\ Len(sent) = 2 /\ Len(messages) = 3
    /\ requests[1] = requests[2]
    /\ ~FailedResponse(responses[1])
    /\ sent[1] = sent[2]

-----------------------------------------------------------------------------
(* The Retriever (specification section 4.3)                                *)

\* The lower-cased words of a text.
Tokens(s) ==
    {ToLowerCase(SubSeq(s, r[1], r[2])) :
        r \in {x \in (1..Len(s)) \X (1..Len(s)) :
                  /\ x[1] <= x[2]
                  /\ \A c \in x[1]..x[2] : ~IsSpace(s[c])
                  /\ (x[1] = 1 \/ IsSpace(s[x[1] - 1]))
                  /\ (x[2] = Len(s) \/ IsSpace(s[x[2] + 1]))}}

\* The lexical relevance of a paragraph to a question: token overlap.
Overlap(para, qn) == Cardinality(Tokens(para.text) \cap Tokens(qn))

\* Position i is ranked before position j: higher relevance first, transcript
\* order among equals.
RankedBefore(paragraphs, qn, i, j) ==
    \/ Overlap(paragraphs[i], qn) > Overlap(paragraphs[j], qn)
    \/ Overlap(paragraphs[i], qn) = Overlap(paragraphs[j], qn) /\ i < j

\* Every paragraph, best first (none is dropped for scoring low).
Ranked(paragraphs, qn) ==
    [r \in 1..Len(paragraphs) |->
        paragraphs[CHOOSE i \in 1..Len(paragraphs) :
            Cardinality({j \in 1..Len(paragraphs) : RankedBefore(paragraphs, qn, j, i)}) = r - 1]]

RECURSIVE TextLength(_)
TextLength(ps) ==
    IF Len(ps) = 0 THEN 0 ELSE Len(ps[1].text) + TextLength(Tail(ps))

\* The paragraphs up to and including the one that crosses the budget.
WithinBudgetInclusive(ranked, budget) ==
    Max(1, Cardinality({n \in 1..Len(ranked) : TextLength(SubSeq(ranked, 1, n - 1)) <= budget}))

\* The default k: the top-ranked paragraphs whose combined text length stays
\* within the budget, and at least the single top-ranked one.
WithinBudget(ranked, budget) ==
    Max(1, Cardinality({n \in 1..Len(ranked) : TextLength(SubSeq(ranked, 1, n)) <= budget}))

\* retrieve(transcript, question, k): the top k of the ranking, k being the
\* default where none is given and never more than the budget admits; empty
\* only for a transcript without paragraphs.
Retrieve(paragraphs, qn, kOpt, budget) ==
    IF Len(paragraphs) = 0 THEN <<>>
    ELSE SubSeq(Ranked(paragraphs, qn), 1,
                IF kOpt = Null THEN WithinBudget(Ranked(paragraphs, qn), budget)
                ELSE Max(1, Min(kOpt[1], WithinBudget(Ranked(paragraphs, qn), budget))))

\* The longest transcript retrieve is run on.
MaxEvidence == 3

RetrieveTexts == {Ehud, Ab, <<"a">> \o Sp \o ToLowerCase(Ehud) \o Sp \o <<"b">>}

RetrieveTranscripts ==
    UNION {[1..n -> {Para(Some(0), 0, 1, t) : t \in RetrieveTexts}] : n \in 0..MaxEvidence}

Questions == {Ehud, Ab \o Sp \o Ehud, <<"z", "z">>}

Budgets == {1, 4, 6, 14}

RetrieveInit ==
    /\ data = Null /\ loading = TRUE /\ error = Null /\ page = "ask"
    /\ query = <<>> /\ filterSpeaker = Null /\ filterEntity = <<>> /\ fuse = Null
    /\ results = <<>> /\ filtered = <<>>
    /\ HighlightIdle
    /\ AskMounted
    /\ SideIdle

\* One call of retrieve, the one the model follows.
RetrieveCall(paragraphs, qn, kOpt, budget) ==
    /\ retrieval = Null
    /\ retrieval' = Some([paragraphs |-> paragraphs, question |-> qn,
                          k |-> kOpt, budget |-> budget])
    /\ evidence' = Retrieve(paragraphs, qn, kOpt, budget)
    /\ UNCHANGED <<searchVars, highlightVars, askVars, apiVars, playerVars, loaded, arrived>>

RetrieveNext ==
    \E paragraphs \in RetrieveTranscripts, qn \in Questions,
       kOpt \in {Null, Some(1), Some(2)}, budget \in Budgets :
        RetrieveCall(paragraphs, qn, kOpt, budget)

RetrieveSpec == RetrieveInit /\ [][RetrieveNext]_vars

C13_WitnessWithin ==
    /\ retrieval # Null
    /\ Len(retrieval[1].paragraphs) = 3
    /\ retrieval[1].k = Null
    /\ Len(evidence) = 2
    /\ TextLength(evidence) = retrieval[1].budget

-----------------------------------------------------------------------------
(* TranscriptContent: the entity memo, the audio state and auto-scroll      *)

\* The letters of the model's texts in alphabetical order; any other
\* character (space, punctuation) sorts before them.
Letters == <<"a", "b", "c", "d", "e", "h", "u", "x", "z">>

LetterRank(c) ==
    IF \E i \in 1..Len(Letters) : Letters[i] = LowerChar(c)
    THEN CHOOSE i \in 1..Len(Letters) : Letters[i] = LowerChar(c)
    ELSE 0

\* The first position where a and b differ by more than case (primary), or by
\* anything (exact), counting one past the shorter where one is a prefix.
FirstDifference(a, b, exact) ==
    CHOOSE n \in 1..(Min(Len(a), Len(b)) + 1) :
        /\ \A i \in 1..(n - 1) :
               IF exact THEN a[i] = b[i] ELSE LetterRank(a[i]) = LetterRank(b[i])
        /\ n <= Min(Len(a), Len(b)) =>
               IF exact THEN a[n] # b[n] ELSE LetterRank(a[n]) # LetterRank(b[n])

\* The sign of a comparison at position n: the shorter string first.
CompareAt(a, b, n, exact) ==
    IF n > Len(a) /\ n > Len(b) THEN 0
    ELSE IF n > Len(a) THEN -1
    ELSE IF n > Len(b) THEN 1
    ELSE IF exact THEN (IF LowerChar(a[n]) = a[n] THEN -1 ELSE 1)
    ELSE IF LetterRank(a[n]) < LetterRank(b[n]) THEN -1 ELSE 1

\* a.localeCompare(b) under the default collation: alphabetical with case set
\* aside, and between strings equal but for case the small letter first.
LocaleCompare(a, b) ==
    IF CompareAt(a, b, FirstDifference(a, b, FALSE), FALSE) # 0
    THEN CompareAt(a, b, FirstDifference(a, b, FALSE), FALSE)
    ELSE CompareAt(a, b, FirstDifference(a, b, TRUE), TRUE)

\* Array.from(new Map(arr.map((x) => [Key(x), x])).values()): one entry per
\* key, at the place of the key's first element and holding its last.
MapValuesOf(arr, Key(_)) ==
    [n \in 1..Cardinality({Key(x) : x \in Range(arr)}) |->
        arr[CHOOSE last \in 1..Len(arr) :
            /\ \A j \in (last + 1)..Len(arr) : Key(arr[j]) # Key(arr[last])
            /\ Cardinality({Key(arr[i]) : i \in 1..(CHOOSE first \in 1..last :
                   /\ Key(arr[first]) = Key(arr[last])
                   /\ \A j \in 1..(first - 1) : Key(arr[j]) # Key(arr[last]))}) = n]]

\* Array.from(new Map(entities.map((e) => [e.value, e])).values())
MapValues(entities) == MapValuesOf(entities, LAMBDA e : e.value)

\* arr.sort((a, b) => b.confidence - a.confidence): a stable sort, the
\* highest confidence first.
SortByConfidence(arr) ==
    [n \in 1..Len(arr) |->
        arr[CHOOSE i \in 1..Len(arr) :
            Cardinality({j \in 1..Len(arr) :
                \/ arr[j].confidence > arr[i].confidence
                \/ arr[j].confidence = arr[i].confidence /\ j < i}) = n - 1]]

\* arr.sort((a, b) => a.value.localeCompare(b.value)): a stable sort.
SortByValue(arr) ==
    [n \in 1..Len(arr) |->
        arr[CHOOSE i \in 1..Len(arr) :
            Cardinality({j \in 1..Len(arr) :
                \/ LocaleCompare(arr[j].value, arr[i].value) < 0
                \/ LocaleCompare(arr[j].value, arr[i].value) = 0 /\ j < i}) = n - 1]]

\* The entities in the order loaded, every one of them.
UniqueEntitiesAll(d) == IF d = Null THEN <<>> ELSE d[1].entities

\* The uniqueEntities memo.
UniqueEntities(d) ==
    IF d = Null THEN <<>> ELSE SortByValue(MapValues(d[1].entities))

\* isSearching with the filters left out.
IsSearchingQueryOnly(q, fs, fe) == Len(Trim(q)) > 0

\* const isSearching = query.trim().length > 0 || filterSpeaker !== null || filterEntity !== ""
IsSearching(q, fs, fe) == Len(Trim(q)) > 0 \/ fs # Null \/ fe # <<>>

\* isActive with the end of the span included: currentTime <= r.para.end.
IsActiveToEndIncluded(r, playing, t) == playing /\ t >= r.para.start /\ t <= r.para.end

\* isActive of one listed paragraph:
\*   isPlaying && currentTime >= r.para.start && currentTime < r.para.end
IsActive(r, playing, t) == playing /\ t >= r.para.start /\ t < r.para.end

\* activeRef.current after the render: the last listed paragraph that is
\* active, as Some(idx), or null where none is.
ActiveRef(list, playing, t) ==
    IF \E n \in 1..Len(list) : IsActive(list[n], playing, t)
    THEN Some(list[CHOOSE n \in 1..Len(list) :
                  /\ IsActive(list[n], playing, t)
                  /\ \A m \in (n + 1)..Len(list) : ~IsActive(list[m], playing, t)].idx)
    ELSE Null

\* The effect after a render: it runs when one of its dependencies
\* [currentTime, isPlaying, autoScroll, isSearching] has changed, and calls
\* scrollIntoView on activeRef.current under its condition.
ScrollEffect(changed, playing, t, auto, searching, list) ==
    IF changed /\ playing /\ auto /\ ~searching
    THEN ActiveRef(list, playing, t)
    ELSE Null

\* TranscriptPage is past its guards and TranscriptContent has not rendered.
ContentPending == ContentShown /\ page = "transcript" /\ fuse = Null

ContentMounted == ContentShown /\ page = "transcript" /\ fuse # Null

\* The array a sort call in the pages' code sorts in place, written as if it
\* were the transcript's own array.
SortReceiverData == "data"

\* The array every sort call in the pages' code sorts in place: the one
\* Array.from(...) has just built, never an array of the transcript,
\*   Array.from(new Map(...).values()).sort(...)
SortReceiver == "copy"

\* An array of the transcript after a sort call whose input was taken from it.
AfterSort(arr, sorted) == IF SortReceiver = "data" THEN sorted ELSE arr

\* The first render of TranscriptContent: its memos, and its effect.
MountContent ==
    /\ ContentPending
    /\ fuse' = FuseMemo(data)
    /\ uniqueEntities' = UniqueEntities(data)
    /\ filtered' = TranscriptFiltered(data, FuseMemo(data), query, filterSpeaker, filterEntity)
    /\ scrolled' = ScrollEffect(TRUE, isPlaying, currentTime, autoScroll,
                                IsSearching(query, filterSpeaker, filterEntity),
                                TranscriptFiltered(data, FuseMemo(data), query,
                                                   filterSpeaker, filterEntity))
    /\ data' = Some([data[1] EXCEPT !.entities = AfterSort(@, SortByValue(@))])
    /\ UNCHANGED <<loading, error, page, query, filterSpeaker, filterEntity, results,
                   uniqueTopics, isPlaying, currentTime, autoScroll,
                   highlightVars, askVars, retrieveVars, apiVars, loaded, arrived>>

\* onChange={(e) => setQuery(e.target.value)} of the transcript page
TranscriptSetQuery(q) ==
    /\ ContentMounted
    /\ query' = q
    /\ filtered' = TranscriptFiltered(data, fuse, q, filterSpeaker, filterEntity)
    /\ scrolled' = ScrollEffect(IsSearching(q, filterSpeaker, filterEntity)
                                    # IsSearching(query, filterSpeaker, filterEntity),
                                isPlaying, currentTime, autoScroll,
                                IsSearching(q, filterSpeaker, filterEntity),
                                TranscriptFiltered(data, fuse, q, filterSpeaker, filterEntity))
    /\ UNCHANGED <<data, loading, error, page, filterSpeaker, filterEntity, fuse, results,
                   uniqueEntities, uniqueTopics, isPlaying, currentTime, autoScroll,
                   highlightVars, askVars, retrieveVars, apiVars, loaded, arrived>>

\* The speaker select of the transcript page.
TranscriptSetFilterSpeaker(fs) ==
    /\ ContentMounted
    /\ filterSpeaker' = fs
    /\ filtered' = TranscriptFiltered(data, fuse, query, fs, filterEntity)
    /\ scrolled' = ScrollEffect(IsSearching(query, fs, filterEntity)
                                    # IsSearching(query, filterSpeaker, filterEntity),
                                isPlaying, currentTime, autoScroll,
                                IsSearching(query, fs, filterEntity),
                                TranscriptFiltered(data, fuse, query, fs, filterEntity))
    /\ UNCHANGED <<data, loading, error, page, query, filterEntity, fuse, results,
                   uniqueEntities, uniqueTopics, isPlaying, currentTime, autoScroll,
                   highlightVars, askVars, retrieveVars, apiVars, loaded, arrived>>

\* The entity select of the transcript page, rendered when uniqueEntities is
\* not empty, its options the values of uniqueEntities.
TranscriptSetFilterEntity(fe) ==
    /\ ContentMounted
    /\ Len(uniqueEntities) > 0
    /\ filterEntity' = fe
    /\ filtered' = TranscriptFiltered(data, fuse, query, filterSpeaker, fe)
    /\ scrolled' = ScrollEffect(IsSearching(query, filterSpeaker, fe)
                                    # IsSearching(query, filterSpeaker, filterEntity),
                                isPlaying, currentTime, autoScroll,
                                IsSearching(query, filterSpeaker, fe),
                                TranscriptFiltered(data, fuse, query, filterSpeaker, fe))
    /\ UNCHANGED <<data, loading, error, page, query, filterSpeaker, fuse, results,
                   uniqueEntities, uniqueTopics, isPlaying, currentTime, autoScroll,
                   highlightVars, askVars, retrieveVars, apiVars, loaded, arrived>>

\* onChange={(e) => setAutoScroll(e.target.checked)}
SetAutoScroll(b) ==
    /\ ContentMounted
    /\ autoScroll' = b
    /\ scrolled' = ScrollEffect(b # autoScroll, isPlaying, currentTime, b,
                                IsSearching(query, filterSpeaker, filterEntity), filtered)
    /\ UNCHANGED <<searchVars, uniqueEntities, uniqueTopics, isPlaying, currentTime,
                   highlightVars, askVars, retrieveVars, apiVars, loaded, arrived>>

\* The audio element's play and pause events: setIsPlaying(true / false).
AudioPlaying(b) ==
    /\ ContentMounted
    /\ isPlaying' = b
    /\ scrolled' = ScrollEffect(b # isPlaying, b, currentTime, autoScroll,
                                IsSearching(query, filterSpeaker, filterEntity), filtered)
    /\ UNCHANGED <<searchVars, uniqueEntities, uniqueTopics, currentTime, autoScroll,
                   highlightVars, askVars, retrieveVars, apiVars, loaded, arrived>>

\* The audio element's timeupdate event: setCurrentTime(audio.currentTime).
AudioTimeUpdate(t) ==
    /\ ContentMounted
    /\ currentTime' = t
    /\ scrolled' = ScrollEffect(t # currentTime, isPlaying, t, autoScroll,
                                IsSearching(query, filterSpeaker, filterEntity), filtered)
    /\ UNCHANGED <<searchVars, uniqueEntities, uniqueTopics, isPlaying, autoScroll,
                   highlightVars, askVars, retrieveVars, apiVars, loaded, arrived>>

\* The option values of the transcript page's entity select.
EntityValues == {uniqueEntities[n].value : n \in 1..Len(uniqueEntities)}

\* The entity lists the memo is computed from: every list of up to
\* MaxEntities entities over four, two sharing a value and two differing in
\* case only.
MaxEntities == 3

EntityPool ==
    { Entity(Ehud, 0, 1), Entity(Ehud, 2, 3), Entity(Ab, 4, 5), Entity(<<"A", "b">>, 6, 7) }

EntityLists == UNION {[1..n -> EntityPool] : n \in 0..MaxEntities}

\* The transcript page once the transcript has been loaded with one of the
\* entity lists, its content about to render.
TranscriptLoaded(d) ==
    /\ data = Some(d) /\ loading = FALSE /\ error = Null /\ page = "transcript"
    /\ query = <<>> /\ filterSpeaker = Null /\ filterEntity = <<>> /\ fuse = Null
    /\ results = <<>> /\ filtered = <<>>
    /\ HighlightIdle
    /\ AskMounted
    /\ RetrieveIdle /\ ApiIdle /\ PlayerIdle
    /\ loaded = Some(d)
    /\ arrived = Null

EntityInit ==
    \E es \in EntityLists :
        TranscriptLoaded([SmallTranscript EXCEPT !.entities = es])

EntityNext ==
    \/ MountContent
    \/ \E fe \in {<<>>} \cup EntityValues : TranscriptSetFilterEntity(fe)

EntitySpec == EntityInit /\ [][EntityNext]_vars

\* C14: the entity memo holds every value of the transcript's entities, each
\* once, in ascending alphabetical order of value (localeCompare), and is
\* empty only when the transcript has no entities.
C14_EntitiesUniqueAndSorted ==
    ContentMounted =>
        /\ {uniqueEntities[n].value : n \in 1..Len(uniqueEntities)}
               = {e.value : e \in Range(data[1].entities)}
        /\ \A m, n \in 1..Len(uniqueEntities) :
               m < n => LocaleCompare(uniqueEntities[m].value, uniqueEntities[n].value) < 0
        /\ \A n \in 1..Len(uniqueEntities) : uniqueEntities[n] \in Range(data[1].entities)
        /\ (Len(uniqueEntities) = 0) <=> (Len(data[1].entities) = 0)

\* Three entities, two of them sharing a value and the third out of order,
\* collapsed to two entries and sorted.
C14_Witness ==
    /\ ContentMounted
    /\ Len(data[1].entities) = 3
    /\ data[1].entities[1].value = Ehud
    /\ data[1].entities[2].value = Ab
    /\ data[1].entities[3].value = Ehud
    /\ Len(uniqueEntities) = 2
    /\ uniqueEntities[1].value = Ab

-----------------------------------------------------------------------------
(* searchTranscript (lib/api.ts)                                            *)

\* The optional speaker argument: left out, null, or a number.
Undefined == [kind |-> "undefined", value |-> 0]

JsNull == [kind |-> "null", value |-> 0]

Number(n) == [kind |-> "number", value |-> n]

Digits == <<"0", "1", "2", "3", "4", "5", "6", "7", "8", "9">>

\* String(n) of a non-negative integer.
RECURSIVE Decimal(_)
Decimal(n) ==
    IF n < 10 THEN <<Digits[n + 1]>>
    ELSE Decimal(n \div 10) \o <<Digits[(n % 10) + 1]>>

\* The application/x-www-form-urlencoded form of one character: a space as
\* "+", the characters that delimit a query string as percent escapes.
EncodeChar(c) ==
    CASE c = " " -> <<"+">>
      [] c = "&" -> <<"%", "2", "6">>
      [] c = "=" -> <<"%", "3", "D">>
      [] c = "+" -> <<"%", "2", "B">>
      [] c = "%" -> <<"%", "2", "5">>
      [] OTHER   -> <<c>>

RECURSIVE Encode(_)
Encode(s) == IF s = <<>> THEN <<>> ELSE EncodeChar(s[1]) \o Encode(Tail(s))

\* URLSearchParams.toString(): name=value pairs joined by "&".
RECURSIVE ParamsToString(_)
ParamsToString(params) ==
    IF params = <<>> THEN <<>>
    ELSE Encode(params[1].name) \o <<"=">> \o Encode(params[1].value)
         \o (IF Len(params) > 1 THEN <<"&">> ELSE <<>>)
         \o ParamsToString(Tail(params))

\* The test written as a truth test: if (speaker)
SpeakerGivenIfTruthy(speaker) == speaker.kind = "number" /\ speaker.value # 0

\* speaker !== null && speaker !== undefined
SpeakerGiven(speaker) == speaker.kind # "null" /\ speaker.kind # "undefined"

\* new URLSearchParams({ q: query }), then params.set("speaker", String(speaker))
SearchParams(q, speaker) ==
    <<[name |-> <<"q">>, value |-> q]>>
    \o (IF SpeakerGiven(speaker)
        THEN <<[name  |-> <<"s", "p", "e", "a", "k", "e", "r">>,
                value |-> Decimal(speaker.value)]>>
        ELSE <<>>)

\* The address fetched: `${API_BASE}/api/search?${params}` with API_BASE "".
SearchUrl(q, speaker) ==
    [path |-> "/api/search", search |-> ParamsToString(SearchParams(q, speaker))]

\* What searchTranscript's promise settles to, given what the fetch delivers:
\*   if (!res.ok) throw new Error("Failed to search"); return res.json()
SearchOutcome(resp) ==
    IF resp.failed \/ ~resp.ok \/ resp.body = Null THEN Rejected
    ELSE Fulfilled(resp.body[1])

\* The calls followed.
MaxFetches == 2

SearchQueries == {<<>>, Ehud, <<"a", " ", "b">>, <<"a", "&", "b", "=", "+">>, <<"%">>}

SpeakerArgs == {Undefined, JsNull, Number(0), Number(1), Number(10)}

SearchResponses ==
    { [failed |-> FALSE, ok |-> TRUE, body |-> Some(<<>>)],
      [failed |-> FALSE, ok |-> FALSE, body |-> Null] }

ApiInit ==
    /\ data = Null /\ loading = TRUE /\ error = Null /\ page = "search"
    /\ query = <<>> /\ filterSpeaker = Null /\ filterEntity = <<>> /\ fuse = Null
    /\ results = <<>> /\ filtered = <<>>
    /\ HighlightIdle
    /\ AskMounted
    /\ SideIdle

\* One call searchTranscript(query, speaker) and the response it is given.
SearchTranscript(q, speaker, resp) ==
    /\ Len(fetched) < MaxFetches
    /\ fetched' = Append(fetched, [args    |-> [query |-> q, speaker |-> speaker],
                                   url     |-> SearchUrl(q, speaker),
                                   outcome |-> SearchOutcome(resp)])
    /\ UNCHANGED <<searchVars, highlightVars, askVars, retrieveVars, playerVars, loaded, arrived>>

ApiNext ==
    \E q \in SearchQueries, speaker \in SpeakerArgs, resp \in SearchResponses :
        SearchTranscript(q, speaker, resp)

ApiSpec == ApiInit /\ [][ApiNext]_vars

\* Reading a query string back as a server does: the text between
\* delimiters, with "+" and the percent escapes undone.
RECURSIVE Decode(_)
Decode(s) ==
    IF s = <<>> THEN <<>>
    ELSE IF s[1] = "+" THEN <<" ">> \o Decode(Tail(s))
    ELSE IF s[1] = "%" /\ Len(s) >= 3
         THEN (CASE <<s[2], s[3]>> = <<"2", "6">> -> <<"&">>
                 [] <<s[2], s[3]>> = <<"3", "D">> -> <<"=">>
                 [] <<s[2], s[3]>> = <<"2", "B">> -> <<"+">>
                 [] <<s[2], s[3]>> = <<"2", "5">> -> <<"%">>
                 [] OTHER -> <<"?">>)
              \o Decode(SubSeq(s, 4, Len(s)))
    ELSE <<s[1]>> \o Decode(Tail(s))

\* The pieces of s between occurrences of the character sep.
RECURSIVE Pieces(_, _)
Pieces(s, sep) ==
    IF \E i \in 1..Len(s) : s[i] = sep
    THEN <<SubSeq(s, 1, (CHOOSE i \in 1..Len(s) :
                            s[i] = sep /\ \A j \in 1..(i - 1) : s[j] # sep) - 1)>>
         \o Pieces(SubSeq(s, (CHOOSE i \in 1..Len(s) :
                                 s[i] = sep /\ \A j \in 1..(i - 1) : s[j] # sep) + 1, Len(s)), sep)
    ELSE <<s>>

\* The parameters a query string holds, as <<name, value>> pairs.
ParsedParams(search) ==
    [n \in 1..Len(Pieces(search, "&")) |->
        <<Decode(Pieces(Pieces(search, "&")[n], "=")[1]),
          Decode(Pieces(Pieces(search, "&")[n], "=")[2])>>]

SpeakerName == <<"s", "p", "e", "a", "k", "e", "r">>

\* C15: every search request goes to /api/search with the query as its
\* parameter q, and carries a speaker parameter exactly when the speaker
\* argument is a number (0 included), its value being the number in decimal;
\* it carries no other parameter.
C15_SpeakerSentWhenGiven ==
    \A n \in 1..Len(fetched) :
        /\ fetched[n].url.path = "/api/search"
        /\ ParsedParams(fetched[n].url.search)[1] = <<<<"q">>, fetched[n].args.query>>
        /\ IF fetched[n].args.speaker.kind = "number"
           THEN /\ Len(ParsedParams(fetched[n].url.search)) = 2
                /\ ParsedParams(fetched[n].url.search)[2]
                       = <<SpeakerName, Decimal(fetched[n].args.speaker.value)>>
           ELSE Len(ParsedParams(fetched[n].url.search)) = 1

\* A request for speaker 0 and one with the speaker left out, for a query
\* holding the characters that delimit parameters.
C15_Witness ==
    /\ Len(fetched) = 2
    /\ fetched[1].args.speaker = Number(0)
    /\ fetched[1].args.query = <<"a", "&", "b", "=", "+">>
    /\ fetched[1].url.search = <<"q", "=", "a", "%", "2", "6", "b", "%", "3", "D", "%", "2", "B",
                                 "&", "s", "p", "e", "a", "k", "e", "r", "=", "0">>
    /\ fetched[2].args.speaker = Undefined
    /\ fetched[2].url.search = <<"q", "=", "E", "h", "u", "d">>

-----------------------------------------------------------------------------
(* The ask page with the network apart from the page: liveness              *)

\* The network delivers a response (or a failure) to the fetch in flight.
\* Nothing in askQuestion or handleSubmit brings this about or stands in for
\* it: fetch is called without a signal and no timer is set.
ServerRespond(resp) ==
    /\ pending # Null
    /\ arrived = Null
    /\ arrived' = Some(resp)
    /\ UNCHANGED <<searchVars, highlightVars, askVars, retrieveVars, apiVars, playerVars,
                   loaded>>

\* askQuestion resumes on the delivered response and handleSubmit runs its
\* try or catch block and finally.
AskContinue ==
    /\ arrived # Null
    /\ Settle(arrived[1])
    /\ arrived' = Null
    /\ UNCHANGED <<searchVars, highlightVars, retrieveVars, apiVars, playerVars, loaded>>

AskLiveNext ==
    \/ \E v \in AskInputs : SetInput(v)
    \/ HandleSubmit
    \/ \E resp \in AskResponses : ServerRespond(resp)
    \/ AskContinue

\* The event loop runs the continuation of a settled promise; the user and
\* the server are under no obligation.
AskLiveSpec == AskInit /\ [][AskLiveNext]_vars /\ WF_vars(AskContinue)

\* C16: every accepted question is eventually followed by its assistant
\* entry with the loading flag back to false, whether or not the server
\* responds.
C16_EveryAskSettles ==
    (pending # Null) ~> (pending = Null /\ ~isLoading
                           /\ Len(messages) = 2 * Len(requests))

\* What the page does guarantee: once a response or a failure has been
\* delivered, the assistant entry follows and the loading flag is cleared.
C16_SettlesOnceDelivered ==
    (arrived # Null) ~> (pending = Null /\ ~isLoading
                           /\ Len(messages) = 2 * Len(requests))

-----------------------------------------------------------------------------
(* The transcript page with its player, and the overview page               *)

\* OverviewPage.uniqueTopics and OverviewPage.uniqueEntities
OverviewTopics(d) ==
    SortByConfidence(MapValuesOf(d[1].topics, LAMBDA x : x.topic))

OverviewEntities(d) == SortByConfidence(MapValues(d[1].entities))

\* The paragraphs of SmallTranscript with three entities (two sharing a value,
\* out of alphabetical and out of confidence order) and three topics.
PlayerTranscript ==
    [paragraphs |-> SmallTranscript.paragraphs,
     entities   |-> << [Entity(Ehud, 0, 1) EXCEPT !.confidence = 5],
                       Entity(Ab, 4, 5),
                       [Entity(Ehud, 2, 3) EXCEPT !.confidence = 7] >>,
     topics     |-> << [topic |-> "money", confidence |-> 3],
                       [topic |-> "travel", confidence |-> 8],
                       [topic |-> "money", confidence |-> 5] >>,
     speakers   |-> <<0, 1>>]

PlayerPages == {"transcript", "overview"}

PlayerQueries == {<<>>, Sp, Ehdu}

\* Playback positions: in the first paragraph, on the boundary it shares with
\* the second, in the second, past the last.
PlayerTimes == {0, 2, 3, 7}

PlayerInit == TranscriptLoaded(PlayerTranscript)

\* Following a link between the two pages: the page left is unmounted with
\* its AudioProvider, the page entered starts from its defaults.
PlayerNavigate(pg) ==
    /\ pg # page
    /\ page' = pg
    /\ query' = <<>> /\ filterSpeaker' = Null /\ filterEntity' = <<>>
    /\ fuse' = Null /\ results' = <<>> /\ filtered' = <<>>
    /\ uniqueEntities' = <<>> /\ uniqueTopics' = <<>>
    /\ isPlaying' = FALSE /\ currentTime' = 0 /\ autoScroll' = TRUE /\ scrolled' = Null
    /\ UNCHANGED <<data, loading, error, highlightVars, askVars, retrieveVars, apiVars,
                   loaded, arrived>>

\* A render of OverviewPage past its guards.
OverviewRender ==
    /\ ContentShown /\ page = "overview"
    /\ uniqueTopics' = OverviewTopics(data)
    /\ uniqueEntities' = OverviewEntities(data)
    /\ data' = Some([data[1] EXCEPT !.topics = AfterSort(@, SortByConfidence(@)),
                                    !.entities = AfterSort(@, SortByConfidence(@))])
    /\ UNCHANGED <<loading, error, page, query, filterSpeaker, filterEntity, fuse, results,
                   filtered, isPlaying, currentTime, autoScroll, scrolled,
                   highlightVars, askVars, retrieveVars, apiVars, loaded, arrived>>

PlayerNext ==
    \/ MountContent
    \/ \E q \in PlayerQueries : TranscriptSetQuery(q)
    \/ \E fs \in {Null} \cup {Some(x) : x \in SpeakerOptions(data)} : TranscriptSetFilterSpeaker(fs)
    \/ \E fe \in {<<>>} \cup EntityValues : TranscriptSetFilterEntity(fe)
    \/ \E b \in BOOLEAN : SetAutoScroll(b)
    \/ \E b \in BOOLEAN : AudioPlaying(b)
    \/ \E t \in PlayerTimes : AudioTimeUpdate(t)
    \/ \E pg \in PlayerPages : PlayerNavigate(pg)
    \/ OverviewRender

PlayerSpec == PlayerInit /\ [][PlayerNext]_vars

C17_WitnessOverview ==
    /\ page = "overview"
    /\ Len(uniqueTopics) = 2
    /\ uniqueTopics[1].topic = "travel"
    /\ data[1].topics[1].topic = "money"

\* C19: the effect scrolls only in a state where the audio is playing,
\* auto-scroll is on, the query is blank and no speaker or entity filter is
\* set, and then to the paragraph being played.
C19_NoAutoScrollWhileSearching ==
    scrolled # Null =>
        /\ isPlaying
        /\ autoScroll
        /\ Trim(query) = <<>>
        /\ filterSpeaker = Null
        /\ filterEntity = <<>>
        /\ currentTime >= data[1].paragraphs[scrolled[1] + 1].start
        /\ currentTime < data[1].paragraphs[scrolled[1] + 1].end

\* The page has scrolled to the second paragraph while its query was a blank
\* that is not empty; and elsewhere it has not scrolled although the audio
\* plays in a listed paragraph with auto-scroll on, a filter being set.
C19_Witness ==
    /\ scrolled = Some(1)
    /\ query = Sp
    /\ currentTime = 3

C19_WitnessSearching ==
    /\ ContentMounted
    /\ isPlaying /\ autoScroll /\ currentTime = 3
    /\ filterSpeaker = Some(1)
    /\ Trim(query) = <<>>
    /\ \E n \in 1..Len(filtered) : filtered[n].idx = 1
    /\ scrolled = Null

-----------------------------------------------------------------------------
(* RenderSpec: the pages with the highlightText calls of their renders      *)

\* The most list entries whose highlightText call is followed.
MaxRendered == 2

\* {highlightText(r.paragraph.text)} for entry n of the rendered list.
RenderHighlight(n) ==
    /\ ContentShown
    /\ HighlightIdle
    /\ n \in 1..Len(Listed)
    /\ highlighted' = Listed[n].paragraph.text
    /\ hpc' = "call"
    /\ UNCHANGED <<regex, parts, lastIndex, rendered, searchVars, askVars, sideVars>>

\* highlightText returns: its locals are gone.
RenderReturn ==
    /\ hpc = "done"
    /\ ~HighlightIdle
    /\ highlighted' = <<>> /\ regex' = Null /\ parts' = <<>>
    /\ lastIndex' = 0 /\ rendered' = <<>>
    /\ UNCHANGED <<hpc, searchVars, askVars, sideVars>>

RenderNext ==
    \/ HighlightIdle /\ Next
    \/ \E n \in 1..MaxRendered : RenderHighlight(n)
    \/ HighlightCall
    \/ HighlightMap
    \/ RenderReturn

RenderSpec == Init /\ [][RenderNext]_vars

-----------------------------------------------------------------------------
(* Blank queries: claim C18, under RenderSpec                               *)

\* The indices of the paragraphs passing the speaker and entity filters, in
\* transcript order.
KeptInOrder ==
    SelectSeq([k \in 1..Len(Paragraphs) |-> k - 1],
              LAMBDA i : PassesSpeaker(i) /\ PassesEntity(i))

\* The list a page shows for no query: the search page caps it at 100.
ShownForNoQuery ==
    IF page = "search" THEN SubSeq(KeptInOrder, 1, Min(Len(KeptInOrder), 100))
    ELSE KeptInOrder

\* C18: with an empty or whitespace-only query the list is every paragraph in
\* transcript order, whatever the fuzzy index would match, then filtered by
\* speaker and entity and capped on the search page; and a finished
\* highlightText call has returned its text whole, with no mark.
C18_BlankQueryIsNoQuery ==
    Trim(query) = <<>> =>
        /\ ListActive =>
               /\ Len(Listed) = Len(ShownForNoQuery)
               /\ \A k \in 1..Len(Listed) :
                      /\ Listed[k].index = ShownForNoQuery[k]
                      /\ Listed[k].paragraph = Paragraphs[ShownForNoQuery[k] + 1]
        /\ (hpc = "done" /\ ~HighlightIdle) =>
               rendered = <<[mark |-> FALSE, part |-> highlighted]>>

\* A whitespace-only query, a finished highlightText call on a listed
\* paragraph, and a list holding a paragraph the index does not match.
C18_Witness ==
    /\ ContentShown
    /\ query = Sp
    /\ hpc = "done" /\ highlighted # <<>>
    /\ rendered = <<[mark |-> FALSE, part |-> highlighted]>>
    /\ Len(Listed) > 1
    /\ \E k \in 1..Len(Listed) : ~SearchIn(Listed[k].paragraph.text, query).isMatch

-----------------------------------------------------------------------------
(* One ask request at a time: claim C20, under AskSpec                      *)

\* The requests sent and not yet settled.
Outstanding == Len(requests) - Len(responses)

\* C20: at most one ask request is outstanding in every state, and no step
\* taken while a request is in flight sends a request or appends a user
\* message: the only message appended then is the reply settling the request.
C20_OneRequestInFlight ==
    /\ [](Outstanding <= 1)
    /\ [][pending # Null =>
              /\ sent' = sent
              /\ requests' = requests
              /\ UserMessages' = UserMessages
              /\ (messages' # messages => pending' = Null)]_vars

\* A submit arrived while the first request was in flight and returned at the
\* guard: one request sent, one message, the request still in flight.
C20_Witness ==
    /\ pending # Null /\ isLoading
    /\ dropped > 0
    /\ Len(sent) = 1 /\ Len(messages) = 1 /\ Outstanding = 1

-----------------------------------------------------------------------------
(* The message list: claim C21, under AskSpec                               *)

\* The assistant's messages, in order.
AssistantMessages == SelectSeq(messages, LAMBDA m : m.role = "assistant")

\* The message list alternates user, assistant, user, ... from a user message.
Alternates ==
    \A k \in 1..Len(messages) :
        messages[k].role = (IF k % 2 = 1 THEN "user" ELSE "assistant")

\* A step appends a user message.
UserMessageAppended ==
    /\ Len(messages') = Len(messages) + 1
    /\ messages'[Len(messages')].role = "user"

\* C21: the message list alternates user, assistant, ... starting with a user
\* message, and holds as many assistant as user messages whenever no request is
\* in flight; every step leaves the messages already listed in place; a user
\* message appended holds the trimmed input, which is not blank; and with a
\* blank input no step appends a user message or sends a request.
C21_MessagesAlternate ==
    /\ [](Alternates
          /\ (pending = Null => Len(AssistantMessages) = Len(UserMessages)))
    /\ [][/\ Len(messages') >= Len(messages)
          /\ SubSeq(messages', 1, Len(messages)) = messages
          /\ UserMessageAppended =>
                 /\ Trim(input) # <<>>
                 /\ messages'[Len(messages')].content = Trim(input)
          /\ Trim(input) = <<>> =>
                 /\ ~UserMessageAppended
                 /\ sent' = sent]_vars

\* The input " r " was submitted and answered, its message holds "r", and a
\* whitespace-only input is in the box with no request in flight.
C21_Witness ==
    /\ Len(messages) = 2
    /\ messages[1] = UserMessage(<<"r">>)
    /\ messages[2].role = "assistant"
    /\ pending = Null
    /\ input = <<" ">>

-----------------------------------------------------------------------------
(* The transcript loader: claim C22, under Spec                             *)

\* Transcript content is on the page: TranscriptContent is mounted with its
\* index or list, or a query or filter of the content's controls is set.
ContentOnPage ==
    \/ query # <<>> \/ filterSpeaker # Null \/ filterEntity # <<>>
    \/ page = "transcript" /\ (fuse # Null \/ filtered # <<>>)

\* C22: loading starts true; in every state, those between the fetch callbacks
\* included, transcript content is on the page only when loading is false,
\* error is null and data is non-null; and loading changes only from true to
\* false, with the fetch settled (data or error set).
C22_ContentOnlyWhenLoaded ==
    /\ loading = TRUE
    /\ [](ContentOnPage => (~loading /\ error = Null /\ data # Null))
    /\ [][loading' # loading =>
              /\ loading /\ ~loading'
              /\ (data # Null \/ error # Null)]_vars

\* The transcript page shows paragraphs matching a query, loading finished.
C22_Witness ==
    /\ page = "transcript" /\ ~loading /\ error = Null /\ data # Null
    /\ query # <<>>
    /\ Len(filtered) > 0

\* Between .then and .finally: data is set, loading is still true and the
\* transcript page has no content.
C22_WitnessBetweenCallbacks ==
    /\ page = "transcript" /\ loading /\ data # Null
    /\ Len(data[1].paragraphs) > 0
    /\ fuse = Null /\ filtered = <<>>

-----------------------------------------------------------------------------
(* The paragraph marked as playing: claim C23, under PlayerSpec             *)

\* The places in the rendered list whose paragraph is drawn as active (ring,
\* "Playing" badge, activeRef).
Marked == {n \in 1..Len(filtered) : IsActive(filtered[n], isPlaying, currentTime)}

\* No two listed paragraphs share a playback position.
SpansDisjoint ==
    \A m, n \in 1..Len(filtered) :
        m # n => \/ filtered[m].para.end <= filtered[n].para.start
                 \/ filtered[n].para.end <= filtered[m].para.start

\* C23: with listed paragraphs whose spans do not overlap, at most one is
\* marked as playing, none while the audio is not playing, and at a position
\* that is the end of one listed paragraph and the start of another the
\* earlier one is not marked and, while playing, the later one is.
C23_AtMostOnePlaying ==
    (ContentMounted /\ SpansDisjoint) =>
        /\ Cardinality(Marked) <= 1
        /\ ~isPlaying => Marked = {}
        /\ \A m, n \in 1..Len(filtered) :
               (filtered[m].para.end = currentTime
                    /\ filtered[n].para.start = currentTime
                    /\ filtered[n].para.end > currentTime)
               => /\ m \notin Marked
                  /\ isPlaying => Marked = {n}

\* Playing at second 2, where the first listed paragraph ends and the second
\* starts: the second alone is marked.
C23_Witness ==
    /\ ContentMounted /\ isPlaying /\ currentTime = 2
    /\ Len(filtered) = 4
    /\ filtered[1].para.end = 2 /\ filtered[2].para.start = 2
    /\ Marked = {2}

-----------------------------------------------------------------------------
(* The two lists agree: claim C24, under Spec                               *)

\* A list of { para, idx } entries written as { paragraph, index } entries.
AsSearchResults(rs) ==
    [k \in 1..Len(rs) |-> [paragraph |-> rs[k].para, index |-> rs[k].idx]]

\* The first 100 entries of a list.
FirstHundred(rs) == SubSeq(rs, 1, Min(Len(rs), 100))

\* What the transcript page's memo gives for the mounted page's inputs.
FilteredHere == TranscriptFiltered(data, FuseMemo(data), query, filterSpeaker, filterEntity)

\* What the search page's memo gives for the mounted page's inputs.
ResultsHere == SearchPageResults(data, FuseMemo(data), query, filterSpeaker, filterEntity)

\* C24: for the transcript, query, speaker filter and entity filter of the
\* mounted page, the search page's results are the first 100 entries of the
\* transcript page's filtered list: the same paragraphs with the same original
\* indices in the same order.
C24_ListsAgree ==
    /\ (page = "search" /\ data # Null)
           => results = FirstHundred(AsSearchResults(FilteredHere))
    /\ (page = "transcript" /\ ContentShown)
           => FirstHundred(AsSearchResults(filtered)) = ResultsHere

\* The search page with a misspelt query over the long transcript: 100
\* results, not in transcript order, where the transcript page lists more.
C24_Witness ==
    /\ page = "search" /\ ContentShown
    /\ Trim(query) # <<>>
    /\ Len(results) = 100
    /\ Len(FilteredHere) > 100
    /\ \E k \in 1..99 : results[k].index > results[k + 1].index

\* The transcript page with a query, a speaker filter and an entity filter
\* that leave some paragraphs and drop others.
C24_WitnessFiltered ==
    /\ page = "transcript" /\ ContentShown
    /\ Trim(query) # <<>> /\ filterSpeaker # Null /\ filterEntity # <<>>
    /\ Len(filtered) > 0
    /\ Len(filtered) < Len(Paragraphs)

====
